---- MODULE Spec2Model ----
(***************************************************************************)
(* Model of the sermon ingestion pipeline (ingestion/scrape_and_embed.py): *)
(* the crawler scrape_sermons, the sync step and snapshot write of main,   *)
(* and the index writer embed_and_upsert, run repeatedly against a site    *)
(* whose category listings grow.                                           *)
(***************************************************************************)
EXTENDS Integers, Sequences, FiniteSets, TLC

(***************************************************************************)
(* Bounds of the model.                                                    *)
(***************************************************************************)
MaxRuns == 3
MaxLinks == 4
MaxFaults == 1

(***************************************************************************)
(* Program constants.                                                      *)
(***************************************************************************)
MIN_CONTENT_LEN == 200
MIN_EMBED_LEN == 50
CHUNK_SIZE == 500
CHUNK_OVERLAP == 50
BATCH_SIZE == 100

(***************************************************************************)
(* URLs.  A URL is the triple of its scheme, the last path segment without *)
(* extension, and the extension; every URL of the model is on the host     *)
(* www.insightfulsermons.com and has a one-segment path.                   *)
(***************************************************************************)
Url(scheme, slug, ext) == [scheme |-> scheme, slug |-> slug, ext |-> ext]

NoUrl == Url("", "", "")

BASE_URL == "https"

CATEGORIES_URL == Url(BASE_URL, "categories", ".html")

\* An href as found in an anchor: form "abs" is scheme://host/slug.ext,
\* "root" is /slug.ext, "home" is /home/slug.ext, "bare" is slug.ext.
Href(form, scheme, slug, ext) ==
  [form |-> form, scheme |-> scheme, slug |-> slug, ext |-> ext]

_abs_url(href) ==
  IF href.form = "none" THEN NoUrl
  ELSE IF href.form \in {"root", "home"} THEN Url(BASE_URL, href.slug, href.ext)
  ELSE IF href.form = "abs" THEN Url(href.scheme, href.slug, href.ext)
  ELSE IF href.ext = ".html" THEN Url(BASE_URL, href.slug, href.ext)
  ELSE Url("", href.slug, href.ext)

\* url.rsplit('/', 1)[-1].replace('.html', '')
UrlSlug(u) == u.slug

\* str.title() on a path segment.
TitleCase(slug) ==
  CASE slug = "faith" -> "Faith"
    [] slug = "grace" -> "Grace"
    [] slug = "c1" -> "C1"
    [] slug = "c2" -> "C2"
    [] slug = "categories" -> "Categories"
    [] OTHER -> slug

\* The URL-derived name get_link_text falls back to, lines 146-149: only the
\* https prefix and the .html suffix are cut off before title-casing.
Humanize(url) ==
  IF url.scheme = "https" THEN TitleCase(url.slug)
  ELSE IF url.scheme = "http"
    THEN "Http://Www.Insightfulsermons.Com/" \o TitleCase(url.slug)
  ELSE TitleCase(url.slug)

get_link_text(link, url) ==
  IF link.text /= "" THEN link.text
  ELSE IF url /= NoUrl THEN Humanize(url)
  ELSE ""

(***************************************************************************)
(* Ordered dictionaries (Python dict, JSON object): a sequence of entries  *)
(* with pairwise distinct keys, in insertion order.                        *)
(***************************************************************************)
Keys(d) == {d[i].key : i \in 1..Len(d)}

HasKey(d, k) == \E i \in 1..Len(d) : d[i].key = k

Get(d, k) == d[CHOOSE i \in 1..Len(d) : d[i].key = k]

DictSet(d, e) ==
  IF HasKey(d, e.key)
    THEN [i \in 1..Len(d) |-> IF d[i].key = e.key THEN e ELSE d[i]]
    ELSE Append(d, e)

Range(s) == {s[i] : i \in 1..Len(s)}

\* A de-duplication that keeps the last element of each url, not the first.
RECURSIVE DedupeByUrl_lastWins(_, _)
DedupeByUrl_lastWins(s, seen) ==
  IF s = <<>> THEN <<>>
  ELSE IF Head(s).url \in seen \cup {Tail(s)[i].url : i \in 1..(Len(s) - 1)}
    THEN DedupeByUrl_lastWins(Tail(s), seen)
  ELSE <<Head(s)>> \o DedupeByUrl_lastWins(Tail(s), seen)

\* [x for x in s if x.url not in seen and not seen.add(x.url)]
RECURSIVE DedupeByUrl(_, _)
DedupeByUrl(s, seen) ==
  IF s = <<>> THEN <<>>
  ELSE IF Head(s).url \in seen THEN DedupeByUrl(Tail(s), seen)
  ELSE <<Head(s)>> \o DedupeByUrl(Tail(s), seen \cup {Head(s).url})

(***************************************************************************)
(* The site.  The categories page lists category anchors; a category page  *)
(* carries the sermon anchors below its menu entry (nav) and the links of  *)
(* its content region (content).  A sermon page has heading candidates and *)
(* a main text, of which the model keeps the cleaned length in characters  *)
(* and the number of words.                                                *)
(***************************************************************************)
Link(href, text) == [href |-> href, text |-> text]

CatSlugs == {"c1", "c2"}

CatUrl(c) == Url(BASE_URL, c, ".html")

RootAnchors ==
  << Link(Href("abs", "https", "c1", ".html"), "Faith Sermons"),
     Link(Href("root", "", "categories", ".html"), "Categories"),
     Link(Href("home", "", "c2", ".html"), ""),
     Link(Href("root", "", "c1", ".html"), "Faith Sermons") >>

FaithAbs == Link(Href("abs", "https", "faith", ".html"), "")
FaithHttp == Link(Href("abs", "http", "faith", ".html"), "")
GraceAbs == Link(Href("abs", "https", "grace", ".html"), "")
GraceHome == Link(Href("home", "", "grace", ".html"), "Grace")
GraceHttp == Link(Href("abs", "http", "grace", ".html"), "")
OtherCat == Link(Href("root", "", "c1", ".html"), "Faith Sermons")

\* What the site owner can add: (category, region, link).
PublishChoices ==
  { <<"c1", "nav", FaithAbs>>, <<"c1", "nav", GraceAbs>>,
    <<"c2", "nav", GraceHome>>, <<"c2", "nav", GraceHttp>>,
    <<"c2", "nav", FaithHttp>>, <<"c2", "content", OtherCat>> }

Text(chars, words) == [chars |-> chars, words |-> words]

Page(headings, content) == [headings |-> headings, content |-> content]

\* What a sermon page can show when it is fetched.
Pages ==
  { Page(<<"On", "Faith">>, Text(MIN_CONTENT_LEN, 36)),
    Page(<<>>, Text(MIN_CONTENT_LEN - 1, 36)) }

VARIABLES
  catPages,             \* site: category slug -> [nav, content] link lists
  snapshot,             \* data/sermon_data.json
  index,                \* the Pinecone index: record id -> metadata
  pc,                   \* position of the ingestion process
  status,               \* exit status of the last run
  existing_sermons,     \* main: the snapshot as loaded
  category_links,       \* scrape_sermons
  sermon_links,         \* scrape_sermons
  ci,                   \* scrape_sermons: position in category_links
  si,                   \* scrape_sermons: position in sermon_links
  visited_sermon_urls,  \* scrape_sermons
  all_sermons,          \* scrape_sermons / main current_sermons
  new_sermons,          \* main
  updated_sermons,      \* main
  sermon_data,          \* embed_and_upsert: its argument
  vectors,              \* embed_and_upsert
  bi,                   \* embed_and_upsert: offset of the next batch
  runs,                 \* number of runs started
  faults,               \* number of failures injected
  catLoaded,            \* history: category urls whose page loaded this run
  fetched,              \* history: sermon urls requested this run, in order
  gets,                 \* history: every url given to driver.get this run
  pages,                \* history: sermon url -> page it showed this run
  upsertLog,            \* history: outcome of each index.upsert call this run
  unwritten,            \* history: urls whose records this run failed to write
  owed,                 \* history: unwritten of the run before, site unchanged
  settled,              \* history: urls crawled, saved and upserted by a run
  succeeded,            \* history: number of runs that ended with status 0
  writes,               \* history: the embed_and_upsert calls that returned
  ct,                   \* chunk_text: the frame of the call in progress
  call,                 \* query time: the frame of the operation in progress
  procs,                \* overlapping runs: process -> frame of its main
  solo,                 \* overlapping runs: their starting snapshot, and
                        \* what one run alone makes of it
  cl                    \* clean_content: the frame of the call in progress

vars ==
  << catPages, snapshot, index, pc, status, existing_sermons, category_links,
     sermon_links, ci, si, visited_sermon_urls, all_sermons, new_sermons,
     updated_sermons, sermon_data, vectors, bi, runs, faults, catLoaded,
     fetched, gets, pages, upsertLog, unwritten, owed, settled, succeeded,
     writes, ct, call, procs, solo, cl >>

siteVars == << catPages >>

storeVars == << snapshot, index >>

crawlVars ==
  << existing_sermons, category_links, sermon_links, ci, si,
     visited_sermon_urls, all_sermons, catLoaded, fetched, gets, pages >>

syncVars == << new_sermons, updated_sermons >>

writerVars == << sermon_data, vectors, bi, upsertLog >>

histVars == << unwritten, owed, settled, succeeded >>

\* The state of the operations other than the ingestion run.
otherVars == << writes, ct, call, procs, solo, cl >>

EmptyMap == [x \in {} |-> x]

\* No call of the operation is in progress.
NoFrame == [pc |-> "idle"]

OthersIdle ==
  /\ writes = <<>>
  /\ ct = NoFrame
  /\ call = NoFrame
  /\ procs = <<>>
  /\ solo = NoFrame
  /\ cl = NoFrame

Init ==
  /\ catPages = [c \in CatSlugs |-> [nav |-> <<>>, content |-> <<>>]]
  /\ snapshot = <<>>
  /\ index = EmptyMap
  /\ pc = "idle"
  /\ status = 0
  /\ existing_sermons = <<>>
  /\ category_links = <<>>
  /\ sermon_links = <<>>
  /\ ci = 1
  /\ si = 1
  /\ visited_sermon_urls = {}
  /\ all_sermons = <<>>
  /\ new_sermons = <<>>
  /\ updated_sermons = <<>>
  /\ sermon_data = <<>>
  /\ vectors = <<>>
  /\ bi = 0
  /\ runs = 0
  /\ faults = 0
  /\ catLoaded = {}
  /\ fetched = <<>>
  /\ gets = <<>>
  /\ pages = EmptyMap
  /\ upsertLog = <<>>
  /\ unwritten = {}
  /\ owed = {}
  /\ settled = {}
  /\ succeeded = 0
  /\ OthersIdle

(***************************************************************************)
(* The site owner adds a link to a category page; listings only grow.      *)
(***************************************************************************)
NumLinks ==
  Len(catPages["c1"].nav) + Len(catPages["c1"].content)
    + Len(catPages["c2"].nav) + Len(catPages["c2"].content)

Listed(c, region, link) == link \in Range(catPages[c][region])

Publish ==
  /\ pc \in {"idle", "exit"}
  /\ NumLinks < MaxLinks
  /\ \E ch \in PublishChoices :
       /\ ~Listed(ch[1], ch[2], ch[3])
       /\ catPages' = [catPages EXCEPT ![ch[1]][ch[2]] = Append(@, ch[3])]
  /\ pc' = "idle"
  /\ UNCHANGED << otherVars, storeVars, status, crawlVars, syncVars, writerVars, runs,
                  faults, histVars >>

(***************************************************************************)
(* main, lines 500-505, and the start of scrape_sermons, lines 168-175 and *)
(* 247: the snapshot is loaded and the crawl state is cleared.             *)
(***************************************************************************)
load_existing_sermons == snapshot

existing_urls == {existing_sermons[i].url : i \in 1..Len(existing_sermons)} \ {NoUrl}

StartRun ==
  /\ pc \in {"idle", "exit"}
  /\ runs < MaxRuns
  /\ runs' = runs + 1
  /\ existing_sermons' = load_existing_sermons
  /\ visited_sermon_urls' = {}
  /\ all_sermons' = <<>>
  /\ category_links' = <<>>
  /\ sermon_links' = <<>>
  /\ ci' = 1
  /\ si' = 1
  /\ new_sermons' = <<>>
  /\ updated_sermons' = <<>>
  /\ sermon_data' = <<>>
  /\ vectors' = <<>>
  /\ bi' = 0
  /\ upsertLog' = <<>>
  /\ owed' = IF pc = "exit" THEN unwritten ELSE {}
  /\ unwritten' = {}
  /\ catLoaded' = {}
  /\ fetched' = <<>>
  /\ gets' = <<>>
  /\ pages' = EmptyMap
  /\ pc' = "root"
  /\ UNCHANGED << otherVars, siteVars, storeVars, status, faults, settled, succeeded >>

(***************************************************************************)
(* scrape_sermons step 1, lines 249-272: the categories page.              *)
(***************************************************************************)
CategoryLinkOf(el) ==
  [url |-> _abs_url(el.href), title |-> get_link_text(el, _abs_url(el.href))]

IsCategoryHref(u) == u /= NoUrl /\ u.ext = ".html" /\ u /= CATEGORIES_URL

\* Lines 260-269 without the de-duplication of line 269.
CollectCategoryLinks_noDedupe(els) ==
  SelectSeq([i \in 1..Len(els) |-> CategoryLinkOf(els[i])],
            LAMBDA l : IsCategoryHref(l.url))

CollectCategoryLinks(els) ==
  DedupeByUrl(
    SelectSeq([i \in 1..Len(els) |-> CategoryLinkOf(els[i])],
              LAMBDA l : IsCategoryHref(l.url)),
    {})

LoadCategories ==
  /\ pc = "root"
  /\ category_links' = CollectCategoryLinks(RootAnchors)
  /\ gets' = Append(gets, CATEGORIES_URL)
  /\ ci' = 1
  /\ pc' = "cats"
  /\ UNCHANGED << otherVars, siteVars, storeVars, status, existing_sermons, sermon_links,
                  si, visited_sermon_urls, all_sermons, catLoaded, fetched,
                  pages, syncVars, writerVars, runs, faults, histVars >>

\* driver.get(CATEGORIES_URL) raises: lines 413-424, the crawl returns the
\* empty mapping.
LoadCategoriesFails ==
  /\ pc = "root"
  /\ faults < MaxFaults
  /\ faults' = faults + 1
  /\ gets' = Append(gets, CATEGORIES_URL)
  /\ pc' = "scraped"
  /\ UNCHANGED << otherVars, siteVars, storeVars, status, existing_sermons,
                  category_links, sermon_links, ci, si, visited_sermon_urls,
                  all_sermons, catLoaded, fetched, pages, syncVars,
                  writerVars, runs, histVars >>

(***************************************************************************)
(* scrape_sermons step 2, lines 277-349: one category page.                *)
(***************************************************************************)
category_url_set == {category_links[i].url : i \in 1..Len(category_links)}

IsCategoriesPage(u) == u.slug = "categories" /\ u.ext = ".html"

\* Lines 313-328: the in-content links kept when the menu entry has no children.
FallbackKeeps(a, cat_url) ==
  LET href == _abs_url(a.href) IN
    /\ href /= NoUrl /\ href.ext = ".html"
    /\ href \notin category_url_set
    /\ href /= CATEGORIES_URL /\ href /= cat_url
    /\ ~IsCategoriesPage(href)
    /\ Len(get_link_text(a, href)) >= 3

\* Lines 331-343.
SermonAnchorKeeps(a, cat_url) ==
  LET href == _abs_url(a.href) IN
    /\ href /= NoUrl /\ href.ext = ".html"
    /\ href /= CATEGORIES_URL /\ href /= cat_url
    /\ ~IsCategoriesPage(href)
    /\ href \notin category_url_set
    /\ Len(get_link_text(a, href)) >= 2

SermonLinkOf(a, cat_title) ==
  [url |-> _abs_url(a.href),
   title |-> get_link_text(a, _abs_url(a.href)),
   category |-> IF cat_title /= "" THEN cat_title ELSE "General"]

SermonLinksOn(page, cat) ==
  LET sermon_anchors ==
        IF page.nav /= <<>> THEN page.nav
        ELSE SelectSeq(page.content, LAMBDA a : FallbackKeeps(a, cat.url))
      kept == SelectSeq(sermon_anchors, LAMBDA a : SermonAnchorKeeps(a, cat.url))
  IN [i \in 1..Len(kept) |-> SermonLinkOf(kept[i], cat.title)]

ReadCategory ==
  /\ pc = "cats"
  /\ ci <= Len(category_links)
  /\ LET cat == category_links[ci] IN
       /\ sermon_links' = sermon_links \o SermonLinksOn(catPages[cat.url.slug], cat)
       /\ catLoaded' = catLoaded \cup {cat.url}
       /\ gets' = Append(gets, cat.url)
  /\ ci' = ci + 1
  /\ UNCHANGED << otherVars, siteVars, storeVars, pc, status, existing_sermons,
                  category_links, si, visited_sermon_urls, all_sermons,
                  fetched, pages, syncVars, writerVars, runs, faults, histVars >>

\* Lines 347-349: the category page raises, the category is skipped.
ReadCategoryFails ==
  /\ pc = "cats"
  /\ ci <= Len(category_links)
  /\ faults < MaxFaults
  /\ faults' = faults + 1
  /\ gets' = Append(gets, category_links[ci].url)
  /\ ci' = ci + 1
  /\ UNCHANGED << otherVars, siteVars, storeVars, pc, status, existing_sermons,
                  category_links, sermon_links, si, visited_sermon_urls,
                  all_sermons, catLoaded, fetched, pages, syncVars,
                  writerVars, runs, histVars >>

\* Lines 351-359.
DedupeSermonLinks ==
  /\ pc = "cats"
  /\ ci > Len(category_links)
  /\ sermon_links' = DedupeByUrl(sermon_links, {})
  /\ si' = 1
  /\ pc' = "sermons"
  /\ gets' = gets
  /\ UNCHANGED << otherVars, siteVars, storeVars, status, existing_sermons,
                  category_links, ci, visited_sermon_urls, all_sermons,
                  catLoaded, fetched, pages, syncVars, writerVars, runs,
                  faults, histVars >>

(***************************************************************************)
(* scrape_sermons step 3, lines 361-404: one sermon link.                  *)
(***************************************************************************)
\* Lines 211-221: the first heading candidate longer than two characters.
_get_sermon_title(page) ==
  LET good == SelectSeq(page.headings, LAMBDA t : Len(t) > 2)
  IN IF good = <<>> THEN "" ELSE Head(good)

SuffixedKey(final_title, sermon_url) ==
  final_title \o " (" \o UrlSlug(sermon_url) \o ")"

\* Lines 390-392.
KeyFor(sermons, final_title, sermon_url) ==
  IF HasKey(sermons, final_title) /\ Get(sermons, final_title).url /= sermon_url
    THEN SuffixedKey(final_title, sermon_url)
    ELSE final_title

Entry(key, content, url, category) ==
  [key |-> key, content |-> content, url |-> url, category |-> category]

\* Line 383 without the length comparison.
TooShort_emptyOnly(content) == content.chars = 0

\* Lines 383-388.
TooShort(content) == content.chars = 0 \/ content.chars < MIN_CONTENT_LEN

\* Lines 376-399 for a page that loaded.
StoreSermon(sermons, link, page) ==
  LET page_title == _get_sermon_title(page)
      final_title == IF page_title /= "" THEN page_title ELSE link.title
  IN IF TooShort(page.content) THEN sermons
     ELSE DictSet(sermons,
                  Entry(KeyFor(sermons, final_title, link.url), page.content,
                        link.url,
                        IF link.category /= "" THEN link.category ELSE "General"))

\* Lines 362-364 without the existing_urls check of lines 366-368.
SkipsSermon_visitedOnly(link) == link.url \in visited_sermon_urls

\* Lines 362-368.
SkipsSermon(link) ==
  link.url \in visited_sermon_urls \/ link.url \in existing_urls

SkipSermon ==
  /\ pc = "sermons"
  /\ si <= Len(sermon_links)
  /\ SkipsSermon(sermon_links[si])
  /\ visited_sermon_urls' = visited_sermon_urls \cup {sermon_links[si].url}
  /\ si' = si + 1
  /\ gets' = gets
  /\ UNCHANGED << otherVars, siteVars, storeVars, pc, status, existing_sermons,
                  category_links, sermon_links, ci, all_sermons, catLoaded,
                  fetched, pages, syncVars, writerVars, runs, faults, histVars >>

ScrapeSermon ==
  /\ pc = "sermons"
  /\ si <= Len(sermon_links)
  /\ ~SkipsSermon(sermon_links[si])
  /\ \E page \in Pages :
       /\ all_sermons' = StoreSermon(all_sermons, sermon_links[si], page)
       /\ pages' = [u \in DOMAIN pages \cup {sermon_links[si].url} |->
                      IF u = sermon_links[si].url THEN page ELSE pages[u]]
  /\ visited_sermon_urls' = visited_sermon_urls \cup {sermon_links[si].url}
  /\ fetched' = Append(fetched, sermon_links[si].url)
  /\ gets' = Append(gets, sermon_links[si].url)
  /\ si' = si + 1
  /\ UNCHANGED << otherVars, siteVars, storeVars, pc, status, existing_sermons,
                  category_links, sermon_links, ci, catLoaded, syncVars,
                  writerVars, runs, faults, histVars >>

\* Lines 402-404: the sermon page raises, the sermon is skipped.
ScrapeSermonFails ==
  /\ pc = "sermons"
  /\ si <= Len(sermon_links)
  /\ ~SkipsSermon(sermon_links[si])
  /\ faults < MaxFaults
  /\ faults' = faults + 1
  /\ visited_sermon_urls' = visited_sermon_urls \cup {sermon_links[si].url}
  /\ fetched' = Append(fetched, sermon_links[si].url)
  /\ gets' = Append(gets, sermon_links[si].url)
  /\ si' = si + 1
  /\ UNCHANGED << otherVars, siteVars, storeVars, pc, status, existing_sermons,
                  category_links, sermon_links, ci, all_sermons, catLoaded,
                  pages, syncVars, writerVars, runs, histVars >>

\* Lines 406-424: the crawl returns all_sermons.
FinishScrape ==
  /\ pc = "sermons"
  /\ si > Len(sermon_links)
  /\ pc' = "scraped"
  /\ UNCHANGED << otherVars, siteVars, storeVars, status, crawlVars, syncVars,
                  writerVars, runs, faults, histVars >>

(***************************************************************************)
(* main, lines 507-530: the sync step and the snapshot write.              *)
(***************************************************************************)
\* Lines 511-516.
IsNew(current, existing, title) ==
  HasKey(current, title) /\ ~HasKey(existing, title)

\* The url comparison of line 518 inverted.
IsUpdated_sameUrl(current, existing, title) ==
  /\ HasKey(current, title)
  /\ HasKey(existing, title)
  /\ Get(current, title).url = Get(existing, title).url

\* Lines 517-519.
IsUpdated(current, existing, title) ==
  /\ HasKey(current, title)
  /\ HasKey(existing, title)
  /\ Get(current, title).url /= Get(existing, title).url

NewSermons(current, existing) ==
  SelectSeq(current, LAMBDA e : IsNew(current, existing, e.key))

UpdatedSermons(current, existing) ==
  SelectSeq(current, LAMBDA e : IsUpdated(current, existing, e.key))

\* Line 527.
save_sermons(sermons) == sermons

\* Line 530: the mapping main hands to embed_and_upsert.
HandedToWriter(current, new, updated) == current

\* A run that writes the empty mapping to the snapshot before it exits.
NoSermons_saves ==
  /\ pc = "scraped"
  /\ all_sermons = <<>>
  /\ snapshot' = save_sermons(all_sermons)
  /\ status' = 1
  /\ pc' = "exit"
  /\ UNCHANGED << otherVars, siteVars, index, crawlVars, syncVars, writerVars,
                  runs, faults, histVars >>

\* Lines 507-509.
NoSermons ==
  /\ pc = "scraped"
  /\ all_sermons = <<>>
  /\ status' = 1
  /\ pc' = "exit"
  /\ UNCHANGED << otherVars, siteVars, storeVars, crawlVars, syncVars, writerVars, runs,
                  faults, histVars >>

SyncAndSave ==
  /\ pc = "scraped"
  /\ all_sermons /= <<>>
  /\ new_sermons' = NewSermons(all_sermons, existing_sermons)
  /\ updated_sermons' = UpdatedSermons(all_sermons, existing_sermons)
  /\ snapshot' = save_sermons(all_sermons)
  /\ sermon_data' = HandedToWriter(all_sermons, new_sermons', updated_sermons')
  /\ pc' = "stage"
  /\ UNCHANGED << otherVars, siteVars, index, status, crawlVars, vectors, bi, upsertLog,
                  runs, faults, histVars >>

(***************************************************************************)
(* embed_and_upsert, lines 427-491.                                        *)
(***************************************************************************)
Min(a, b) == IF a < b THEN a ELSE b

Max(a, b) == IF a > b THEN a ELSE b

\* Line 106 without the clamp, as in upload_data.py line 44.
ChunkStep_unclamped(chunk_size, overlap) == chunk_size - overlap

\* chunk_text, lines 99-111, on word positions: the k-th window, counted
\* from 0, is [lo, hi) with lo = k * step.
ChunkStep(chunk_size, overlap) == Max(1, chunk_size - overlap)

NumChunks(n, chunk_size, overlap) ==
  (n + ChunkStep(chunk_size, overlap) - 1) \div ChunkStep(chunk_size, overlap)

ChunkWindows(n, chunk_size, overlap) ==
  [k \in 1..NumChunks(n, chunk_size, overlap) |->
     [lo |-> (k - 1) * ChunkStep(chunk_size, overlap),
      hi |-> Min((k - 1) * ChunkStep(chunk_size, overlap) + chunk_size, n)]]

\* The chunks of a text: its windows, each naming the text it is cut from.
chunk_text(text) ==
  LET w == ChunkWindows(text.words, CHUNK_SIZE, CHUNK_OVERLAP)
  IN [k \in 1..Len(w) |-> [of |-> text, lo |-> w[k].lo, hi |-> w[k].hi]]

\* An id drawn anew for every call of the writer instead of a hash.
generate_doc_id_perCall(url) == <<"md5", url, Len(writes)>>

\* hashlib.md5(url.encode()).hexdigest(), lines 95-96.
generate_doc_id(url) == <<"md5", url>>

RecordId(url, i) == [doc |-> generate_doc_id(url), chunk |-> i]

embed(chunk) == <<"embedding", chunk>>

\* Lines 435-462 for one sermon.
VectorsOfSermon(sermon) ==
  IF sermon.content.chars = 0 \/ sermon.content.chars < MIN_EMBED_LEN THEN <<>>
  ELSE LET chunks == chunk_text(sermon.content) IN
    [k \in 1..Len(chunks) |->
       [id |-> RecordId(sermon.url, k - 1),
        values |-> embed(chunks[k]),
        metadata |-> [text |-> chunks[k], title |-> sermon.key,
                      url |-> sermon.url, category |-> sermon.category,
                      chunk_index |-> k - 1, total_chunks |-> Len(chunks)]]]

RECURSIVE StagedVectors(_)
StagedVectors(sermons) ==
  IF sermons = <<>> THEN <<>>
  ELSE VectorsOfSermon(Head(sermons)) \o StagedVectors(Tail(sermons))

\* index.upsert(vectors=batch): a record with an existing id is overwritten.
Upsert(idx, batch) ==
  LET ids == {batch[i].id : i \in 1..Len(batch)}
      last(id) == CHOOSE i \in 1..Len(batch) :
                    /\ batch[i].id = id
                    /\ \A j \in (i + 1)..Len(batch) : batch[j].id /= id
  IN [id \in DOMAIN idx \cup ids |->
        IF id \in ids
          THEN [values |-> batch[last(id)].values,
                metadata |-> batch[last(id)].metadata]
          ELSE idx[id]]

BatchAt(vs, i) == SubSeq(vs, i + 1, Min(i + BATCH_SIZE, Len(vs)))

\* Lines 429-471.
StageVectors ==
  /\ pc = "stage"
  /\ vectors' = StagedVectors(sermon_data)
  /\ bi' = 0
  /\ upsertLog' = <<>>
  /\ IF vectors' = <<>>
       THEN status' = 1 /\ pc' = "exit"
       ELSE status' = status /\ pc' = "upsert"
  /\ UNCHANGED << otherVars, siteVars, storeVars, crawlVars, syncVars, sermon_data, runs,
                  faults, histVars >>

\* After the loop of lines 474-482 embed_and_upsert returns True.
AfterBatch(next) ==
  IF next >= Len(vectors)
    THEN /\ status' = 0
         /\ pc' = "exit"
         /\ settled' = settled \cup {vectors[i].metadata.url : i \in 1..Len(vectors)}
         /\ succeeded' = succeeded + 1
    ELSE /\ status' = status
         /\ pc' = "upsert"
         /\ UNCHANGED << settled, succeeded >>

\* Lines 474-479: one batch is upserted.
UpsertBatch ==
  /\ pc = "upsert"
  /\ bi < Len(vectors)
  /\ index' = Upsert(index, BatchAt(vectors, bi))
  /\ bi' = bi + BATCH_SIZE
  /\ upsertLog' = Append(upsertLog, "ok")
  /\ AfterBatch(bi + BATCH_SIZE)
  /\ UNCHANGED << otherVars, siteVars, snapshot, crawlVars, syncVars, sermon_data,
                  vectors, runs, faults, unwritten, owed >>

\* Lines 480-482: index.upsert raises, embed_and_upsert returns False and
\* main exits with status 1 (lines 536-540).
UpsertBatchFails ==
  /\ pc = "upsert"
  /\ bi < Len(vectors)
  /\ faults < MaxFaults
  /\ faults' = faults + 1
  /\ upsertLog' = Append(upsertLog, "error")
  /\ unwritten' = {vectors[i].metadata.url : i \in (bi + 1)..Len(vectors)}
  /\ status' = 1
  /\ pc' = "exit"
  /\ UNCHANGED << otherVars, siteVars, storeVars, crawlVars, syncVars, sermon_data,
                  vectors, bi, runs, owed, settled, succeeded >>

Next ==
  \/ Publish
  \/ StartRun
  \/ LoadCategories
  \/ LoadCategoriesFails
  \/ ReadCategory
  \/ ReadCategoryFails
  \/ DedupeSermonLinks
  \/ SkipSermon
  \/ ScrapeSermon
  \/ ScrapeSermonFails
  \/ FinishScrape
  \/ NoSermons
  \/ SyncAndSave
  \/ StageVectors
  \/ UpsertBatch
  \/ UpsertBatchFails

Spec == Init /\ [][Next]_vars

(***************************************************************************)
(* The index writer on its own: embed_and_upsert called on a mapping drawn *)
(* from a bounded set that holds texts below the embedding threshold and   *)
(* texts long enough to fill more than one batch.                          *)
(***************************************************************************)
MaxDocs == 2

WriterTexts == {Text(49, 9), Text(200, 36), Text(270000, 45001)}

WriterEntries ==
  {Entry(k, c, Url(BASE_URL, u, ".html"), "General") :
     k \in {"Faith", "Grace"}, c \in WriterTexts, u \in {"faith", "grace"}}

RECURSIVE DictsOf(_)
DictsOf(n) ==
  IF n = 0 THEN {<<>>}
  ELSE LET shorter == DictsOf(n - 1) IN
    shorter \cup {Append(d, e) : d \in {x \in shorter : Len(x) = n - 1},
                                e \in WriterEntries}

WriterInputs ==
  {d \in DictsOf(MaxDocs) :
     d /= <<>> /\ \A i, j \in 1..Len(d) : d[i].key = d[j].key => i = j}

InitWriter ==
  /\ catPages = [c \in CatSlugs |-> [nav |-> <<>>, content |-> <<>>]]
  /\ snapshot = <<>>
  /\ index = EmptyMap
  /\ pc = "stage"
  /\ status = 0
  /\ existing_sermons = <<>>
  /\ category_links = <<>>
  /\ sermon_links = <<>>
  /\ ci = 1
  /\ si = 1
  /\ visited_sermon_urls = {}
  /\ all_sermons = <<>>
  /\ new_sermons = <<>>
  /\ updated_sermons = <<>>
  /\ sermon_data \in WriterInputs
  /\ vectors = <<>>
  /\ bi = 0
  /\ runs = 1
  /\ faults = 0
  /\ catLoaded = {}
  /\ fetched = <<>>
  /\ gets = <<>>
  /\ pages = EmptyMap
  /\ upsertLog = <<>>
  /\ unwritten = {}
  /\ owed = {}
  /\ settled = {}
  /\ succeeded = 0
  /\ OthersIdle

NextWriter ==
  \/ StageVectors
  \/ UpsertBatch
  \/ UpsertBatchFails

SpecWriter == InitWriter /\ [][NextWriter]_vars

(***************************************************************************)
(* The other index writer, ingestion/upload_data.py: it reads the snapshot *)
(* file into a mapping of the same shape and upserts every document of it. *)
(***************************************************************************)
\* chunk_text of upload_data.py, lines 39-49: range(0, len(words), 450); a
\* window of that range is never empty.
upload_chunk_text(text) ==
  LET step == CHUNK_SIZE - CHUNK_OVERLAP
      count == (text.words + step - 1) \div step
  IN [k \in 1..count |->
        [of |-> text, lo |-> (k - 1) * step,
         hi |-> Min((k - 1) * step + CHUNK_SIZE, text.words)]]

\* hashlib.md5(f"{title}|{url}".encode()).hexdigest(), upload_data.py 51-54.
upload_generate_doc_id(title, url) == <<"md5", title, "|", url>>

UploadRecordId(title, url, i) ==
  [doc |-> upload_generate_doc_id(title, url), chunk |-> i]

\* upload_data.py lines 109-142 for one article.
UploadVectorsOfArticle(article) ==
  IF article.content.chars = 0 THEN <<>>
  ELSE LET chunks == upload_chunk_text(article.content) IN
    [k \in 1..Len(chunks) |->
       [id |-> UploadRecordId(article.key, article.url, k - 1),
        values |-> embed(chunks[k]),
        metadata |-> [text |-> chunks[k], title |-> article.key,
                      url |-> article.url, category |-> article.category,
                      chunk_index |-> k - 1, total_chunks |-> Len(chunks)]]]

RECURSIVE UploadStagedVectors(_)
UploadStagedVectors(articles) ==
  IF articles = <<>> THEN <<>>
  ELSE UploadVectorsOfArticle(Head(articles))
         \o UploadStagedVectors(Tail(articles))

\* upload_data.py lines 103-148.
UploadStageVectors ==
  /\ pc = "upload"
  /\ vectors' = UploadStagedVectors(sermon_data)
  /\ bi' = 0
  /\ upsertLog' = <<>>
  /\ IF vectors' = <<>>
       THEN status' = 1 /\ pc' = "exit"
       ELSE status' = status /\ pc' = "upload_upsert"
  /\ UNCHANGED << otherVars, siteVars, storeVars, crawlVars, syncVars,
                  sermon_data, runs, faults, histVars >>

\* upload_data.py lines 152-164: one batch is upserted; after the last one
\* the function returns True.
UploadUpsertBatch ==
  /\ pc = "upload_upsert"
  /\ bi < Len(vectors)
  /\ index' = Upsert(index, BatchAt(vectors, bi))
  /\ bi' = bi + BATCH_SIZE
  /\ upsertLog' = Append(upsertLog, "ok")
  /\ IF bi + BATCH_SIZE >= Len(vectors)
       THEN status' = 0 /\ pc' = "exit"
       ELSE status' = status /\ pc' = "upload_upsert"
  /\ UNCHANGED << otherVars, siteVars, snapshot, crawlVars, syncVars,
                  sermon_data, vectors, runs, faults, histVars >>

\* upload_data.py lines 159-161: index.upsert raises, the function returns
\* False and main exits with status 1.
UploadUpsertBatchFails ==
  /\ pc = "upload_upsert"
  /\ bi < Len(vectors)
  /\ faults < MaxFaults
  /\ faults' = faults + 1
  /\ upsertLog' = Append(upsertLog, "error")
  /\ status' = 1
  /\ pc' = "exit"
  /\ UNCHANGED << otherVars, siteVars, storeVars, crawlVars, syncVars,
                  sermon_data, vectors, bi, runs, histVars >>

(***************************************************************************)
(* A document mapping written to the index more than once, through either  *)
(* writer, its title keys possibly edited between two writes.              *)
(***************************************************************************)
MaxWrites == 2

Titles == {"Faith", "Grace", "Hope"}

\* The mapping with the key of its i-th document changed to title.
Retitled(d, i, title) ==
  [j \in 1..Len(d) |-> IF j = i THEN [d[j] EXCEPT !.key = title] ELSE d[j]]

\* The ingestion variables the writers do not use, at rest.
CrawlAtRest ==
  /\ catPages = [c \in CatSlugs |-> [nav |-> <<>>, content |-> <<>>]]
  /\ snapshot = <<>>
  /\ existing_sermons = <<>>
  /\ category_links = <<>>
  /\ sermon_links = <<>>
  /\ ci = 1
  /\ si = 1
  /\ visited_sermon_urls = {}
  /\ all_sermons = <<>>
  /\ new_sermons = <<>>
  /\ updated_sermons = <<>>
  /\ catLoaded = {}
  /\ fetched = <<>>
  /\ gets = <<>>
  /\ pages = EmptyMap
  /\ unwritten = {}
  /\ owed = {}
  /\ settled = {}
  /\ succeeded = 0

\* The writer before its first call.
WriterAtRest ==
  /\ index = EmptyMap
  /\ pc = "idle"
  /\ status = 0
  /\ sermon_data = <<>>
  /\ vectors = <<>>
  /\ bi = 0
  /\ runs = 0
  /\ faults = 0
  /\ upsertLog = <<>>

InitRewrite ==
  /\ CrawlAtRest
  /\ index = EmptyMap
  /\ pc = "idle"
  /\ status = 0
  /\ sermon_data \in WriterInputs
  /\ vectors = <<>>
  /\ bi = 0
  /\ runs = 0
  /\ faults = 0
  /\ upsertLog = <<>>
  /\ OthersIdle

\* A writer is called on the mapping: writes records the writer, the mapping,
\* the index as the call finds it and the outcome of the call before.
CallWriter(path) ==
  /\ pc \in {"idle", "exit"}
  /\ Len(writes) < MaxWrites
  /\ writes' = Append(writes,
                      [path |-> path, data |-> sermon_data, before |-> index,
                       prior |-> IF writes = <<>> THEN "none"
                                 ELSE IF status = 0 THEN "True" ELSE "False"])
  /\ pc' = path
  /\ UNCHANGED << ct, call, procs, solo, cl, siteVars, storeVars, status,
                  crawlVars, syncVars, sermon_data, vectors, bi, upsertLog,
                  runs, faults, histVars >>

\* scrape_and_embed.py line 530.
CallEmbedAndUpsert == CallWriter("stage")

\* upload_data.py line 183.
CallUploadData == CallWriter("upload")

\* Between two writes the title key of one document is edited.
Retitle ==
  /\ pc = "exit"
  /\ Len(writes) < MaxWrites
  /\ sermon_data = writes[Len(writes)].data
  /\ \E i \in 1..Len(sermon_data) : \E title \in Titles \ Keys(sermon_data) :
       sermon_data' = Retitled(sermon_data, i, title)
  /\ UNCHANGED << otherVars, siteVars, storeVars, pc, status, crawlVars,
                  syncVars, vectors, bi, upsertLog, runs, faults, histVars >>

NextRewrite ==
  \/ CallEmbedAndUpsert
  \/ CallUploadData
  \/ Retitle
  \/ StageVectors
  \/ UpsertBatch
  \/ UpsertBatchFails
  \/ UploadStageVectors
  \/ UploadUpsertBatch
  \/ UploadUpsertBatchFails

SpecRewrite == InitRewrite /\ [][NextRewrite]_vars

(***************************************************************************)
(* A document whose page was edited between two ingestions: the mapping    *)
(* the second run hands to the writer holds the url with another text.     *)
(***************************************************************************)
\* The mapping with the content of its i-th document changed to text.
Reworded(d, i, text) ==
  [j \in 1..Len(d) |-> IF j = i THEN [d[j] EXCEPT !.content = text] ELSE d[j]]

\* Between two writes the text of one document changes.
Reword ==
  /\ pc = "exit"
  /\ Len(writes) < MaxWrites
  /\ sermon_data = writes[Len(writes)].data
  /\ \E i \in 1..Len(sermon_data) :
       \E text \in WriterTexts \ {sermon_data[i].content} :
         sermon_data' = Reworded(sermon_data, i, text)
  /\ UNCHANGED << otherVars, siteVars, storeVars, pc, status, crawlVars,
                  syncVars, vectors, bi, upsertLog, runs, faults, histVars >>

NextReindex ==
  \/ NextRewrite
  \/ Reword

SpecReindex == InitRewrite /\ [][NextReindex]_vars

(***************************************************************************)
(* chunk_text, lines 99-111, on real texts: a text is a sequence of        *)
(* characters, a word a non-empty sequence of non-blank characters.        *)
(***************************************************************************)
MaxText == 5

MaxChunkSize == 3

MaxOverlap == 3

Chars == {"a", "b", " "}

RECURSIVE SeqsUpTo(_, _)
SeqsUpTo(S, n) ==
  IF n = 0 THEN {<<>>}
  ELSE LET shorter == SeqsUpTo(S, n - 1) IN
    shorter \cup {Append(q, x) : q \in {r \in shorter : Len(r) = n - 1}, x \in S}

\* str.split(): the maximal runs of non-blank characters, in order; cur is
\* the run being read.
RECURSIVE SplitFrom(_, _)
SplitFrom(text, cur) ==
  IF text = <<>> THEN (IF cur = <<>> THEN <<>> ELSE <<cur>>)
  ELSE IF Head(text) = " "
    THEN (IF cur = <<>> THEN <<>> ELSE <<cur>>) \o SplitFrom(Tail(text), <<>>)
    ELSE SplitFrom(Tail(text), Append(cur, Head(text)))

Split(text) == SplitFrom(text, <<>>)

\* " ".join(words)
RECURSIVE Join(_)
Join(words) ==
  IF words = <<>> THEN <<>>
  ELSE IF Len(words) = 1 THEN Head(words)
  ELSE Head(words) \o <<" ">> \o Join(Tail(words))

\* str.strip()
RECURSIVE Strip(_)
Strip(str) ==
  IF str = <<>> THEN <<>>
  ELSE IF Head(str) = " " THEN Strip(Tail(str))
  ELSE IF str[Len(str)] = " " THEN Strip(SubSeq(str, 1, Len(str) - 1))
  ELSE str

\* The slice q[lo:hi] of Python, positions counted from 0.
Slice(q, lo, hi) == SubSeq(q, lo + 1, Min(hi, Len(q)))

ChunkCall(text, chunk_size, overlap, first) ==
  [pc |-> "call", text |-> text, chunk_size |-> chunk_size,
   overlap |-> overlap, words |-> <<>>, step |-> 0, i |-> 0,
   chunks |-> <<>>, first |-> first]

InitChunk ==
  /\ CrawlAtRest
  /\ WriterAtRest
  /\ writes = <<>>
  /\ ct \in {ChunkCall(text, chunk_size, overlap, <<"none">>) :
               text \in SeqsUpTo(Chars, MaxText),
               chunk_size \in 1..MaxChunkSize, overlap \in 0..MaxOverlap}
  /\ call = NoFrame
  /\ procs = <<>>
  /\ solo = NoFrame
  /\ cl = NoFrame

ingestVars ==
  << siteVars, storeVars, pc, status, crawlVars, syncVars, writerVars, runs,
     faults, histVars >>

\* Lines 101-106.
ChunkSplit ==
  /\ ct.pc = "call"
  /\ LET words == Split(ct.text) IN
       ct' = [ct EXCEPT !.words = words, !.chunks = <<>>, !.i = 0,
                        !.step = ChunkStep(ct.chunk_size, ct.overlap),
                        !.pc = IF words = <<>> THEN "return" ELSE "loop"]
  /\ UNCHANGED << ingestVars, writes, call, procs, solo, cl >>

\* Lines 107-110: one iteration of the loop.
ChunkLoop ==
  /\ ct.pc = "loop"
  /\ ct.i < Len(ct.words)
  /\ LET chunk == Strip(Join(Slice(ct.words, ct.i, ct.i + ct.chunk_size))) IN
       ct' = [ct EXCEPT !.chunks = IF chunk /= <<>> THEN Append(@, chunk) ELSE @,
                        !.i = @ + ct.step]
  /\ UNCHANGED << ingestVars, writes, call, procs, solo, cl >>

\* Line 111.
ChunkReturn ==
  /\ ct.pc = "loop"
  /\ ct.i >= Len(ct.words)
  /\ ct' = [ct EXCEPT !.pc = "return"]
  /\ UNCHANGED << ingestVars, writes, call, procs, solo, cl >>

\* chunk_text is called once more on the same text; first keeps what the
\* first call returned.
ChunkAgain ==
  /\ ct.pc = "return"
  /\ ct.first = <<"none">>
  /\ ct' = ChunkCall(ct.text, ct.chunk_size, ct.overlap, <<"returned", ct.chunks>>)
  /\ UNCHANGED << ingestVars, writes, call, procs, solo, cl >>

NextChunk ==
  \/ ChunkSplit
  \/ ChunkLoop
  \/ ChunkReturn
  \/ ChunkAgain

SpecChunk == InitChunk /\ [][NextChunk]_vars

(***************************************************************************)
(* Query time: chat of server.py, retrieve of retrieval.py and             *)
(* generate_answer of llm.py.  A Python dict is a function on its keys, a  *)
(* string a sequence of tokens (words, phrases and blanks), a similarity   *)
(* score a number of hundredths.                                           *)
(***************************************************************************)
MaxTopK == 3

RELEVANCE_THRESHOLD == 25

CHAT_TOP_K == 3

MAX_CITED == 3

Has(d, k) == k \in DOMAIN d

\* d.get(k, default)
PyGet(d, k, default) == IF k \in DOMAIN d THEN d[k] ELSE default

Return(value) == [kind |-> "return", value |-> value]

Raise(error) == [kind |-> "raise", error |-> error]

None == [type |-> "NoneType"]

Str(tokens) == [type |-> "str", value |-> tokens]

FaithUrl == Url(BASE_URL, "faith", ".html")

GraceUrl == Url(BASE_URL, "grace", ".html")

HopeUrl == Url(BASE_URL, "hope", ".html")

\* The records the index can return for a query, best score first.
Ranked ==
  << [id |-> "a0", score |-> 90,
      metadata |-> [text |-> "Faith is trust in what is unseen.",
                    title |-> "On Faith", url |-> FaithUrl,
                    category |-> "Faith Sermons"]],
     [id |-> "m0", score |-> 80],
     [id |-> "u0", score |-> 70, metadata |-> [title |-> "Untitled"]],
     [id |-> "a1", score |-> 60,
      metadata |-> [text |-> "Faith comes by hearing.", title |-> "On Faith",
                    url |-> FaithUrl, category |-> "Faith Sermons"]],
     [id |-> "g2", score |-> 30,
      metadata |-> [text |-> "Grace is a gift.", url |-> GraceUrl]],
     [id |-> "b1", score |-> 25,
      metadata |-> [text |-> "Be hospitable.", title |-> "On Grace",
                    url |-> GraceUrl, category |-> "General"]],
     [id |-> "b0", score |-> 10,
      metadata |-> [text |-> "Welcome the stranger.", title |-> "On Grace",
                    url |-> GraceUrl, category |-> "General"]],
     [id |-> "n0",
      metadata |-> [text |-> "Hope does not disappoint.", title |-> "On Hope",
                    url |-> HopeUrl, category |-> "General"]] >>

RECURSIVE Picked(_, _)
Picked(k, chosen) ==
  IF k > Len(Ranked) THEN <<>>
  ELSE (IF k \in chosen THEN <<Ranked[k]>> ELSE <<>>) \o Picked(k + 1, chosen)

\* index.query(vector, top_k, include_metadata=True): at most top_k matches
\* in rank order, a reply without matches, or an exception.
QueryResults(top_k) ==
  {Picked(1, chosen) :
     chosen \in {c \in SUBSET (1..Len(Ranked)) : Cardinality(c) <= top_k}}

IndexReplies(top_k) ==
  {Raise("index")} \cup {Return([namespace |-> ""])}
    \cup {Return([matches |-> q, namespace |-> ""]) : q \in QueryResults(top_k)}

\* The generative model: it raises, answers without content, or answers.
LlmReplies ==
  { [kind |-> "raise"], [kind |-> "null"],
    [kind |-> "content", content |-> <<>>],
    [kind |-> "content", content |-> <<"Faith is trust in what is unseen.">>],
    [kind |-> "content",
     content |-> <<"I ", "don't have sermons", " about that.">>] }

Questions ==
  { <<>>, <<" ">>, <<"Hi">>, <<"Good", " ", "Morning">>, <<"Tell", " ", "me">>,
    <<" ", "What", " ", "is", " ", "faith?">>,
    <<"asdkjasdj_nonsense_query", " ", "for", " ", "sermons">> }

\* The bodies a client can post to /chat.
Requests ==
  { [kind |-> "unparsable"], [kind |-> "json", data |-> None],
    [kind |-> "json", data |-> EmptyMap],
    [kind |-> "json", data |-> [text |-> Str(<<"Hi">>)]],
    [kind |-> "json", data |-> [message |-> [type |-> "int", number |-> 5]]] }
    \cup {[kind |-> "json", data |-> [message |-> Str(q)]] : q \in Questions}

\* request.get_json(): a body that is not JSON yields None or raises,
\* depending on the Flask release.
get_json(request) ==
  IF request.kind = "json" THEN {Return(request.data)}
  ELSE {Return(None), Raise("BadRequest")}

LowerWord(w) ==
  CASE w = "Hi" -> "hi"
    [] w = "Good" -> "good"
    [] w = "Morning" -> "morning"
    [] w = "Tell" -> "tell"
    [] w = "What" -> "what"
    [] w = "I " -> "i "
    [] w = "Faith is trust in what is unseen." ->
         "faith is trust in what is unseen."
    [] OTHER -> w

\* str.lower()
Lower(str) == [k \in 1..Len(str) |-> LowerWord(str[k])]

\* server.py line 60.
greetings ==
  { <<"hi">>, <<"hello">>, <<"hey">>, <<"yo">>, <<"sup">>, <<"howdy">>,
    <<"greetings">>, <<"good", " ", "morning">>, <<"good", " ", "afternoon">>,
    <<"good", " ", "evening">> }

\* llm.py line 21.
small_talk ==
  { <<"hi">>, <<"hello">>, <<"hey">>, <<"yo">>, <<"sup">>, <<"howdy">>,
    <<"greetings">> }

\* server.py lines 132-137.
no_sermon_indicators ==
  { "don't have specific sermons", "don't have sermons", "no sermons about",
    "sermons don't cover" }

GreetingAnswer ==
  <<"Hello! I'm BibliBot, here to help you explore our sermons.">>

EmptyAnswer ==
  <<"I'm sorry, I couldn't generate a proper response. Please try again.">>

FailureAnswer ==
  <<"I apologize, but something went wrong on my end. Please try again in a moment.">>

NoClientMessage ==
  <<"I'm having trouble connecting to the AI service. Please try again later.">>

SmallTalkMessage ==
  <<"Hello! I'm BibliBot. Ask me about faith, grace, prayer, or any Biblical topic!">>

NoSermonsMessage ==
  <<"I couldn't find any sermons about that topic.">>

GenerationFailedMessage ==
  <<"I apologize, but I'm having trouble generating a response right now. Please try again.">>

(***************************************************************************)
(* llm.py.                                                                 *)
(***************************************************************************)
\* '?' in question: the tokens of the model that hold a question mark.
HasQuestionMark(question) == "faith?" \in Range(question)

\* Lines 16-30.
is_sermon_question(question) ==
  IF Strip(Lower(question)) \in small_talk THEN FALSE
  ELSE IF Len(Split(question)) < 3 /\ ~HasQuestionMark(question) THEN FALSE
  ELSE TRUE

\* client.chat.completions.create(...).choices[0].message.content.strip()
Completion(llm) ==
  IF llm.kind = "content" THEN Return(Strip(llm.content))
  ELSE IF llm.kind = "null" THEN Raise("AttributeError")
  ELSE Raise("generation")

\* Lines 45-116.
generate_answer(context, question, client, llm) ==
  IF ~client THEN NoClientMessage
  ELSE IF ~is_sermon_question(question)
    THEN (IF Completion(llm).kind = "return" THEN Completion(llm).value
          ELSE SmallTalkMessage)
  ELSE IF Strip(context) = <<>> THEN NoSermonsMessage
  ELSE IF Completion(llm).kind = "return" THEN Completion(llm).value
  ELSE GenerationFailedMessage

\* Line 32: the parameters of generate_answer.
generate_answer_params == {"context", "question", "sources"}

\* A call generate_answer(context, question, **keywords): a keyword that is
\* no parameter raises TypeError before the body runs.
CallGenerateAnswer(context, question, keywords, client, llm) ==
  IF keywords \subseteq generate_answer_params
    THEN Return(generate_answer(context, question, client, llm))
    ELSE Raise("TypeError")

(***************************************************************************)
(* retrieval.py.                                                           *)
(***************************************************************************)
\* Lines 52-57.
TextsOf(matches) ==
  LET withText == SelectSeq(matches, LAMBDA m :
                    Has(m, "metadata") /\ Has(m.metadata, "text"))
  IN [k \in 1..Len(withText) |-> withText[k].metadata.text]

\* Lines 30-60, the body of the try block.
retrieve_body(embedding, reply) ==
  IF embedding = "raise" THEN Raise("embedding")
  ELSE IF reply.kind = "raise" THEN reply
  ELSE IF ~Has(reply.value, "matches") THEN Return(<<>>)
  ELSE IF reply.value.matches = <<>> THEN Return(<<>>)
  ELSE Return(TextsOf(reply.value.matches))

\* retrieve without the except clause of lines 62-64.
retrieve_uncaught(embedding, reply) == retrieve_body(embedding, reply)

\* Lines 29-64.
retrieve(embedding, reply) ==
  IF retrieve_body(embedding, reply).kind = "raise" THEN Return(<<>>)
  ELSE retrieve_body(embedding, reply)

(***************************************************************************)
(* server.py, chat.                                                        *)
(***************************************************************************)
\* jsonify(body), status
Respond(code, body) == Return([status |-> code, body |-> body])

\* An answer string: its text and the sermon links appended to it.
Answer(text, links) == [text |-> text, links |-> links]

\* Lines 154-158.
Failure == Respond(500, [answer |-> Answer(FailureAnswer, <<>>)])

\* The gate of line 88 left out.
IsRelevant_noGate(match) == TRUE

\* Line 88.
IsRelevant(match) == PyGet(match, "score", 0) > RELEVANCE_THRESHOLD

\* Lines 101-107.
ContextChunks(matches) == TextsOf(matches)

\* Line 111 without the seen_urls test.
KeepsSource_anyUrl(url, seen_urls) == url /= NoUrl

\* Line 111.
KeepsSource(url, seen_urls) == url /= NoUrl /\ url \notin seen_urls

\* Lines 101-117: the sources of the matches, given the urls seen so far.
RECURSIVE SourcesFrom(_, _)
SourcesFrom(matches, seen_urls) ==
  IF matches = <<>> THEN <<>>
  ELSE LET match == Head(matches)
           metadata == PyGet(match, "metadata", EmptyMap)
           url == PyGet(metadata, "url", NoUrl)
       IN IF Has(match, "metadata") /\ KeepsSource(url, seen_urls)
            THEN << [title |-> PyGet(metadata, "title", "Sermon"), url |-> url,
                     category |-> PyGet(metadata, "category", "General")] >>
                   \o SourcesFrom(Tail(matches), seen_urls \cup {url})
            ELSE SourcesFrom(Tail(matches), seen_urls)

\* "\n\n---\n\n".join(context_chunks)
RECURSIVE JoinContext(_)
JoinContext(context_chunks) ==
  IF context_chunks = <<>> THEN <<>>
  ELSE IF Len(context_chunks) = 1 THEN context_chunks
  ELSE <<Head(context_chunks), "\n\n---\n\n">> \o JoinContext(Tail(context_chunks))

\* Lines 143-145.
Cited(sources) ==
  [k \in 1..Min(MAX_CITED, Len(sources)) |->
     [title |-> sources[k].title, url |-> sources[k].url]]

\* The frame of an operation that has just been called.
Called(op) ==
  [op |-> op, pc |-> "called", request |-> None, question |-> <<>>,
   embedding |-> "", reply |-> None, client |-> TRUE, llm |-> None,
   relevant_matches |-> <<>>, context_chunks |-> <<>>, sources |-> <<>>,
   context |-> <<>>, result |-> None]

Done(frame, result) == [frame EXCEPT !.pc = "done", !.result = result]

\* Lines 45-64.
ChatParsed(request, parsed) ==
  LET frame == [Called("chat") EXCEPT !.request = request] IN
  IF parsed.kind = "raise" THEN Done(frame, Failure)
  ELSE IF parsed.value = None \/ parsed.value = EmptyMap
    THEN Done(frame, Respond(400, [error |-> "No JSON data provided"]))
  ELSE LET message == PyGet(parsed.value, "message", Str(<<>>)) IN
    IF message.type /= "str" THEN Done(frame, Failure)
    ELSE LET question == Strip(message.value) IN
      IF question = <<>>
        THEN Done(frame, Respond(400, [error |-> "No message provided"]))
      ELSE IF Strip(Lower(question)) \in greetings \/ Len(Split(question)) <= 2
        THEN Done([frame EXCEPT !.question = question],
                  Respond(200, [answer |-> Answer(GreetingAnswer, <<>>)]))
      ELSE [frame EXCEPT !.question = question, !.pc = "query"]

ChatParse ==
  /\ call.pc = "idle"
  /\ \E request \in Requests : \E parsed \in get_json(request) :
       call' = ChatParsed(request, parsed)
  /\ UNCHANGED << ingestVars, writes, ct, procs, solo, cl >>

\* Lines 84-85 and 93-94.
AnswerWithoutContent(frame) ==
  LET answer == CallGenerateAnswer(<<>>, frame.question, {"has_sermon_content"},
                                   frame.client, frame.llm)
  IN IF answer.kind = "raise" THEN Done(frame, Failure)
     ELSE Done(frame, Respond(200, [answer |-> Answer(answer.value, <<>>)]))

\* Lines 66-94.
ChatQueried(frame) ==
  IF frame.embedding = "raise" \/ frame.reply.kind = "raise"
    THEN Done(frame, Failure)
  ELSE LET res == frame.reply.value IN
    IF ~Has(res, "matches") THEN AnswerWithoutContent(frame)
    ELSE IF res.matches = <<>> THEN AnswerWithoutContent(frame)
    ELSE LET relevant_matches == SelectSeq(res.matches, IsRelevant) IN
      IF relevant_matches = <<>> THEN AnswerWithoutContent(frame)
      ELSE [frame EXCEPT !.relevant_matches = relevant_matches, !.pc = "build"]

ChatQuery ==
  /\ call.pc = "query"
  /\ \E embedding \in {"ok", "raise"} : \E reply \in IndexReplies(CHAT_TOP_K) :
       \E client \in BOOLEAN : \E llm \in LlmReplies :
         call' = ChatQueried([call EXCEPT !.embedding = embedding,
                                          !.reply = reply, !.client = client,
                                          !.llm = llm])
  /\ UNCHANGED << ingestVars, writes, ct, procs, solo, cl >>

\* Lines 96-120.
ChatBuild ==
  /\ call.pc = "build"
  /\ call' = [call EXCEPT
       !.context_chunks = ContextChunks(call.relevant_matches),
       !.sources = SourcesFrom(call.relevant_matches, {}),
       !.context = JoinContext(ContextChunks(call.relevant_matches)),
       !.pc = "generate"]
  /\ UNCHANGED << ingestVars, writes, ct, procs, solo, cl >>

\* Lines 122-158.
ChatGenerated(frame) ==
  LET answer == CallGenerateAnswer(frame.context, frame.question,
                                   {"has_sermon_content"}, frame.client,
                                   frame.llm)
  IN IF answer.kind = "raise" THEN Done(frame, Failure)
     ELSE IF answer.value = <<>>
       THEN Done(frame, Respond(200, [answer |-> Answer(EmptyAnswer, <<>>)]))
     ELSE LET has_sermons ==
                \A phrase \in Range(Lower(answer.value)) :
                  phrase \notin no_sermon_indicators
          IN Done(frame,
                  Respond(200, [answer |->
                    Answer(answer.value,
                           IF has_sermons /\ frame.sources /= <<>>
                             THEN Cited(frame.sources) ELSE <<>>)]))

ChatGenerate ==
  /\ call.pc = "generate"
  /\ call' = ChatGenerated(call)
  /\ UNCHANGED << ingestVars, writes, ct, procs, solo, cl >>

\* retrieve(query, top_k) is called, as in test_system.py line 126.
Retrieve ==
  /\ call.pc = "idle"
  /\ \E top_k \in 1..MaxTopK : \E embedding \in {"ok", "raise"} :
       \E reply \in IndexReplies(top_k) :
         call' = Done([Called("retrieve") EXCEPT !.embedding = embedding,
                                                 !.reply = reply],
                      retrieve(embedding, reply))
  /\ UNCHANGED << ingestVars, writes, ct, procs, solo, cl >>

Contexts ==
  { <<>>, <<" ">>, <<"Faith is trust in what is unseen.">> }

\* generate_answer(context, question) is called, as in test_system.py
\* line 154.
GenerateAnswer ==
  /\ call.pc = "idle"
  /\ \E context \in Contexts : \E question \in Questions :
       \E client \in BOOLEAN : \E llm \in LlmReplies :
         call' = Done([Called("generate_answer") EXCEPT
                         !.context = context, !.question = question,
                         !.client = client, !.llm = llm],
                      CallGenerateAnswer(context, question, {}, client, llm))
  /\ UNCHANGED << ingestVars, writes, ct, procs, solo, cl >>

\* The operation has returned to its caller; the next one can be called.
Returned ==
  /\ call.pc = "done"
  /\ call' = NoFrame
  /\ UNCHANGED << ingestVars, writes, ct, procs, solo, cl >>

InitQuery ==
  /\ CrawlAtRest
  /\ WriterAtRest
  /\ OthersIdle

NextQuery ==
  \/ ChatParse
  \/ ChatQuery
  \/ ChatBuild
  \/ ChatGenerate
  \/ Retrieve
  \/ GenerateAnswer
  \/ Returned

SpecQuery == InitQuery /\ [][NextQuery]_vars

(***************************************************************************)
(* Two runs of main that overlap, on a site that does not change: each     *)
(* process loads the snapshot, crawls, rewrites the snapshot file and      *)
(* upserts its batches; the snapshot file and the index are shared.  No    *)
(* page and no upsert fails.                                               *)
(***************************************************************************)
Procs == {1, 2}

SiteOf(c1nav, c2nav) ==
  [c \in CatSlugs |->
     [nav |-> IF c = "c1" THEN c1nav ELSE c2nav, content |-> <<>>]]

PairSites ==
  {SiteOf(a, b) : a \in {<<FaithAbs>>, <<FaithAbs, GraceAbs>>},
                  b \in {<<>>, <<GraceHome>>, <<GraceHttp>>}}

PairUrls ==
  {Url("https", "faith", ".html"), Url("https", "grace", ".html"),
   Url("http", "grace", ".html")}

ValidPage == Page(<<"On", "Faith">>, Text(MIN_CONTENT_LEN, 36))

ShortPage == Page(<<>>, Text(MIN_CONTENT_LEN - 1, 36))

LongPage == Page(<<"On", "Faith">>, Text(270000, 45001))

\* What the sermon pages of the site show.
PairPageMaps ==
  { [u \in PairUrls |-> ValidPage],
    [u \in PairUrls |-> IF u.slug = "faith" THEN LongPage ELSE ValidPage],
    [u \in PairUrls |-> IF u.scheme = "http" THEN ShortPage ELSE ValidPage] }

\* Lines 277-349 over all categories, every category page loading.
RECURSIVE CollectSermonLinks(_, _)
CollectSermonLinks(site, cats) ==
  IF cats = <<>> THEN <<>>
  ELSE SermonLinksOn(site[Head(cats).url.slug], Head(cats))
         \o CollectSermonLinks(site, Tail(cats))

\* Lines 361-404 over the deduplicated links, every sermon page loading.
RECURSIVE ScrapeAll(_, _, _, _)
ScrapeAll(links, shown, known_urls, sermons) ==
  IF links = <<>> THEN sermons
  ELSE IF Head(links).url \in known_urls
    THEN ScrapeAll(Tail(links), shown, known_urls, sermons)
  ELSE ScrapeAll(Tail(links), shown, known_urls,
                 StoreSermon(sermons, Head(links), shown[Head(links).url]))

\* scrape_sermons(existing), lines 154-424, on a site without failures.
scrape_sermons(site, shown, existing) ==
  ScrapeAll(DedupeByUrl(CollectSermonLinks(site, category_links), {}), shown,
            {existing[k].url : k \in 1..Len(existing)} \ {NoUrl}, <<>>)

\* Lines 473-479: the batches from offset i on, upserted one after another.
RECURSIVE UpsertFrom(_, _, _)
UpsertFrom(idx, vs, i) ==
  IF i >= Len(vs) THEN idx
  ELSE UpsertFrom(Upsert(idx, BatchAt(vs, i)), vs, i + BATCH_SIZE)

\* What one run of main alone makes of a snapshot and an index.
SoloRun(site, shown, snap, idx) ==
  LET current_sermons == scrape_sermons(site, shown, snap) IN
    IF current_sermons = <<>> THEN [snapshot |-> snap, index |-> idx]
    ELSE [snapshot |-> save_sermons(current_sermons),
          index |-> UpsertFrom(idx, StagedVectors(current_sermons), 0)]

\* Where the two runs start: nothing ingested yet, or what a run left that
\* ingested the site when it listed faith.html alone, or grace.html alone.
PairStarts(shown) ==
  { [snapshot |-> <<>>, index |-> EmptyMap],
    SoloRun(SiteOf(<<FaithAbs>>, <<>>), shown, <<>>, EmptyMap),
    SoloRun(SiteOf(<<GraceAbs>>, <<>>), shown, <<>>, EmptyMap) }

MainFrame ==
  [pc |-> "start", existing_sermons |-> <<>>, current_sermons |-> <<>>,
   vectors |-> <<>>, bi |-> 0, status |-> 0, overlapped |-> FALSE]

InitPair ==
  /\ category_links = CollectCategoryLinks(RootAnchors)
  /\ catPages \in PairSites
  /\ pages \in PairPageMaps
  /\ \E start \in PairStarts(pages) :
       /\ snapshot = start.snapshot
       /\ index = start.index
  /\ solo = [start |-> snapshot,
             end |-> SoloRun(catPages, pages, snapshot, index)]
  /\ procs = [p \in Procs |-> MainFrame]
  /\ pc = "idle"
  /\ status = 0
  /\ existing_sermons = <<>>
  /\ sermon_links = <<>>
  /\ ci = 1
  /\ si = 1
  /\ visited_sermon_urls = {}
  /\ all_sermons = <<>>
  /\ new_sermons = <<>>
  /\ updated_sermons = <<>>
  /\ sermon_data = <<>>
  /\ vectors = <<>>
  /\ bi = 0
  /\ runs = 0
  /\ faults = 0
  /\ catLoaded = {}
  /\ fetched = <<>>
  /\ gets = <<>>
  /\ upsertLog = <<>>
  /\ unwritten = {}
  /\ owed = {}
  /\ settled = {}
  /\ succeeded = 0
  /\ writes = <<>>
  /\ ct = NoFrame
  /\ call = NoFrame
  /\ cl = NoFrame

\* What the overlapping runs leave alone.
pairFixed ==
  << siteVars, pc, status, crawlVars, syncVars, writerVars, runs, faults,
     histVars, writes, ct, call, solo, cl >>

\* Line 503.  A file another run has truncated does not parse and loads as
\* the empty mapping, lines 121-123.
PairLoad(p) ==
  /\ procs[p].pc = "start"
  /\ procs' = [procs EXCEPT ![p].existing_sermons = load_existing_sermons,
                            ![p].pc = "crawl"]
  /\ UNCHANGED << pairFixed, storeVars >>

\* A crawl that compares against the snapshot file as it is when the crawl
\* starts, not against the mapping the run loaded.
PairCrawl_rereads(p) ==
  /\ procs[p].pc = "crawl"
  /\ LET current_sermons ==
           scrape_sermons(catPages, pages, load_existing_sermons)
     IN procs' = [procs EXCEPT
          ![p].current_sermons = current_sermons,
          ![p].status = IF current_sermons = <<>> THEN 1 ELSE 0,
          ![p].pc = IF current_sermons = <<>> THEN "exit" ELSE "save"]
  /\ UNCHANGED << pairFixed, storeVars >>

\* Lines 505-525.
PairCrawl(p) ==
  /\ procs[p].pc = "crawl"
  /\ LET current_sermons ==
           scrape_sermons(catPages, pages, procs[p].existing_sermons)
     IN procs' = [procs EXCEPT
          ![p].current_sermons = current_sermons,
          ![p].status = IF current_sermons = <<>> THEN 1 ELSE 0,
          ![p].pc = IF current_sermons = <<>> THEN "exit" ELSE "save"]
  /\ UNCHANGED << pairFixed, storeVars >>

\* Line 129: open(json_file, "w") truncates the file.
PairOpenSnapshot(p) ==
  /\ procs[p].pc = "save"
  /\ snapshot' = <<>>
  /\ procs' = [procs EXCEPT ![p].pc = "dump"]
  /\ UNCHANGED << pairFixed, index >>

\* Line 130: json.dump writes the mapping.
PairDumpSnapshot(p) ==
  /\ procs[p].pc = "dump"
  /\ snapshot' = save_sermons(procs[p].current_sermons)
  /\ procs' = [procs EXCEPT ![p].pc = "stage"]
  /\ UNCHANGED << pairFixed, index >>

\* Lines 429-471.
PairStage(p) ==
  /\ procs[p].pc = "stage"
  /\ LET staged == StagedVectors(procs[p].current_sermons) IN
       procs' = [procs EXCEPT
         ![p].vectors = staged,
         ![p].bi = 0,
         ![p].status = IF staged = <<>> THEN 1 ELSE 0,
         ![p].pc = IF staged = <<>> THEN "exit" ELSE "upsert"]
  /\ UNCHANGED << pairFixed, storeVars >>

\* Lines 474-491: one batch, and the return after the last one.  overlapped
\* records that the other run was between its crawl and its end meanwhile.
PairUpsertBatch(p) ==
  /\ procs[p].pc = "upsert"
  /\ index' = Upsert(index, BatchAt(procs[p].vectors, procs[p].bi))
  /\ procs' = [procs EXCEPT
       ![p].bi = @ + BATCH_SIZE,
       ![p].overlapped = @ \/ \E q \in Procs \ {p} :
                                procs[q].pc \in {"save", "dump", "stage", "upsert"},
       ![p].pc = IF procs[p].bi + BATCH_SIZE >= Len(procs[p].vectors)
                   THEN "exit" ELSE "upsert"]
  /\ UNCHANGED << pairFixed, snapshot >>

NextPair ==
  \/ \E p \in Procs : PairLoad(p)
  \/ \E p \in Procs : PairCrawl(p)
  \/ \E p \in Procs : PairOpenSnapshot(p)
  \/ \E p \in Procs : PairDumpSnapshot(p)
  \/ \E p \in Procs : PairStage(p)
  \/ \E p \in Procs : PairUpsertBatch(p)

SpecPair == InitPair /\ [][NextPair]_vars

(***************************************************************************)
(* clean_content, lines 76-92.  A text is a sequence of atoms: the bracket *)
(* characters, the blank and the newline, the colon, "w" for any other     *)
(* character (a letter, a digit, punctuation, a parenthesis), and the      *)
(* letters of the words summary and summarized in some capitalisation.     *)
(***************************************************************************)
MaxRaw == 4

Atoms == {"[", "]", " ", "\n", ":", "w", "Summary", "summarized"}

\* What \s matches.
Blank == {" ", "\n"}

\* What (summary|summarized) matches under re.IGNORECASE.
LabelAtoms == {"Summary", "summarized"}

\* Where .*?\] ends when it is tried at position i of str: at the first "]",
\* unless a newline, which the dot does not match, comes before it; else 0.
RECURSIVE CloseAt(_, _)
CloseAt(str, i) ==
  IF i > Len(str) THEN 0
  ELSE IF str[i] = "]" THEN i
  ELSE IF str[i] = "\n" THEN 0
  ELSE CloseAt(str, i + 1)

\* Line 84: re.sub(r"\[.*?\]", " ", content).
RECURSIVE SubBrackets(_)
SubBrackets(str) ==
  IF str = <<>> THEN <<>>
  ELSE LET k == IF Head(str) = "[" THEN CloseAt(Tail(str), 1) ELSE 0 IN
    IF k > 0
      THEN <<" ">> \o SubBrackets(SubSeq(str, k + 2, Len(str)))
      ELSE <<Head(str)>> \o SubBrackets(Tail(str))

\* What is left after a match of \s* at the start of str.
RECURSIVE SkipBlank(_)
SkipBlank(str) ==
  IF str /= <<>> /\ Head(str) \in Blank THEN SkipBlank(Tail(str)) ELSE str

\* A pattern without the anchor: every label is deleted, wherever it stands.
StripLeadingLabel_everywhere(str) ==
  SelectSeq(str, LAMBDA a : a \notin LabelAtoms)

\* Line 87: re.sub(r"^\s*(summary|summarized)\s*:?\s*", "", content,
\* flags=re.IGNORECASE); without re.MULTILINE ^ matches at the start only.
StripLeadingLabel(str) ==
  LET a == SkipBlank(str) IN
    IF a /= <<>> /\ Head(a) \in LabelAtoms
      THEN LET b == SkipBlank(Tail(a))
               c == IF b /= <<>> /\ Head(b) = ":" THEN Tail(b) ELSE b
           IN SkipBlank(c)
      ELSE str

\* Line 90: re.sub(r"\s+", " ", content).
RECURSIVE CollapseBlank(_)
CollapseBlank(str) ==
  IF str = <<>> THEN <<>>
  ELSE IF Head(str) \in Blank
    THEN <<" ">> \o CollapseBlank(SkipBlank(str))
    ELSE <<Head(str)>> \o CollapseBlank(Tail(str))

\* Line 80: not content.
Falsy(content) == IF content = None THEN TRUE ELSE content.value = <<>>

clean_content(content) ==
  IF Falsy(content) THEN <<>>
  ELSE Strip(CollapseBlank(StripLeadingLabel(SubBrackets(content.value))))

CleanCall(content) ==
  [pc |-> "call", arg |-> content, content |-> <<>>, result |-> None]

InitClean ==
  /\ CrawlAtRest
  /\ WriterAtRest
  /\ writes = <<>>
  /\ ct = NoFrame
  /\ call = NoFrame
  /\ procs = <<>>
  /\ solo = NoFrame
  /\ cl \in {CleanCall(None)}
            \cup {CleanCall(Str(t)) : t \in SeqsUpTo(Atoms, MaxRaw)}

cleanFixed == << ingestVars, writes, ct, call, procs, solo >>

\* Lines 80-81.
CleanEmpty ==
  /\ cl.pc = "call"
  /\ Falsy(cl.arg)
  /\ cl' = [cl EXCEPT !.result = Return(<<>>), !.pc = "done"]
  /\ UNCHANGED cleanFixed

\* Line 84.
CleanBrackets ==
  /\ cl.pc = "call"
  /\ ~Falsy(cl.arg)
  /\ cl' = [cl EXCEPT !.content = SubBrackets(cl.arg.value), !.pc = "label"]
  /\ UNCHANGED cleanFixed

\* Line 87.
CleanLabel ==
  /\ cl.pc = "label"
  /\ cl' = [cl EXCEPT !.content = StripLeadingLabel(cl.content),
                      !.pc = "blank"]
  /\ UNCHANGED cleanFixed

\* Lines 90-91.
CleanWhitespace ==
  /\ cl.pc = "blank"
  /\ cl' = [cl EXCEPT !.content = Strip(CollapseBlank(cl.content)),
                      !.result = Return(Strip(CollapseBlank(cl.content))),
                      !.pc = "done"]
  /\ UNCHANGED cleanFixed

NextClean ==
  \/ CleanEmpty
  \/ CleanBrackets
  \/ CleanLabel
  \/ CleanWhitespace

SpecClean == InitClean /\ [][NextClean]_vars

TypeOK ==
  /\ pc \in {"idle", "root", "cats", "sermons", "scraped", "stage", "upsert",
            "upload", "upload_upsert", "exit"}
  /\ status \in {0, 1}
  /\ runs \in 0..MaxRuns
  /\ faults \in 0..MaxFaults

(***************************************************************************)
(* Vocabulary of the properties.                                           *)
(***************************************************************************)
Urls(d) == {d[i].url : i \in 1..Len(d)}

CrawlReturned == pc \in {"scraped", "stage", "upsert", "exit"}

Synced == pc \in {"stage", "upsert", "exit"} /\ all_sermons /= <<>>

\* The sermon pages that loaded this run and passed the length check.
Accepted == {u \in DOMAIN pages : pages[u].content.chars >= MIN_CONTENT_LEN}

HasRecords(u) == \E id \in DOMAIN index : id.doc = <<"md5", u>>

\* A category or sermon page raised during this run.
SomePageRaised ==
  \/ \E u \in Range(fetched) : u \notin DOMAIN pages
  \/ \E i \in 1..Len(category_links) : category_links[i].url \notin catLoaded

(***************************************************************************)
(* C1: after the sync step every key of the crawled mapping is in exactly  *)
(* one class: new (absent from the previous snapshot), updated (in both,   *)
(* urls differ) or unchanged (in both, same url); new_sermons holds exactly*)
(* the new keys, updated_sermons exactly the updated ones, the two are     *)
(* disjoint and hold no unchanged key.                                     *)
(***************************************************************************)
C1_Classes ==
  Synced =>
    \A i \in 1..Len(all_sermons) :
      LET k == all_sermons[i].key
          absent == \A j \in 1..Len(existing_sermons) : existing_sermons[j].key /= k
          differ == \E j \in 1..Len(existing_sermons) :
                      /\ existing_sermons[j].key = k
                      /\ existing_sermons[j].url /= all_sermons[i].url
          same == \E j \in 1..Len(existing_sermons) :
                    /\ existing_sermons[j].key = k
                    /\ existing_sermons[j].url = all_sermons[i].url
      IN /\ (k \in Keys(new_sermons)) <=> absent
         /\ (k \in Keys(updated_sermons)) <=> differ
         /\ same => (k \notin Keys(new_sermons) /\ k \notin Keys(updated_sermons))
         /\ ~(k \in Keys(new_sermons) /\ k \in Keys(updated_sermons))
         /\ Cardinality({c \in {"new", "updated", "unchanged"} :
                           \/ c = "new" /\ absent
                           \/ c = "updated" /\ differ
                           \/ c = "unchanged" /\ same}) = 1

C1_Witness ==
  /\ pc = "stage"
  /\ new_sermons /= <<>>
  /\ updated_sermons /= <<>>

(***************************************************************************)
(* C2: the mapping handed to embed_and_upsert is exactly the new and the   *)
(* updated documents; no document whose key and url both match the         *)
(* previous snapshot is handed over, staged or upserted in the run.        *)
(***************************************************************************)
C2_HandedIsNewAndUpdated ==
  pc \in {"stage", "upsert", "exit"} =>
    /\ Range(sermon_data) = Range(new_sermons) \cup Range(updated_sermons)
    /\ \A e \in Range(sermon_data) : \A x \in Range(existing_sermons) :
         ~(x.key = e.key /\ x.url = e.url)
    /\ \A v \in Range(vectors) : \A x \in Range(existing_sermons) :
         ~(x.key = v.metadata.title /\ x.url = v.metadata.url)

\* Sermon1 at X is in the previous snapshot and still listed, Sermon2 at Y is
\* new: only Sermon2 was written.
C2_Witness ==
  /\ pc = "exit" /\ status = 0
  /\ \E l \in Range(sermon_links) : l.url \in Urls(existing_sermons)
  /\ vectors /= <<>>
  /\ \A v \in Range(vectors) : v.metadata.url \notin Urls(existing_sermons)

(***************************************************************************)
(* C3: if a batch upsert failed in the run before and the site has not     *)
(* changed since, then at the end of a run in which no upsert failed every *)
(* document left unwritten by the failed run is either absent from the     *)
(* snapshot that run persisted or was staged and upserted again.           *)
(***************************************************************************)
C3_FailedUpsertIsRetried ==
  (pc = "exit" /\ owed /= {} /\ "error" \notin Range(upsertLog)) =>
    \A u \in owed :
      \/ u \notin Urls(existing_sermons)
      \/ /\ u \in {vectors[i].metadata.url : i \in 1..Len(vectors)}
         /\ HasRecords(u)

(***************************************************************************)
(* C4: after a sequence of successful runs the snapshot has an entry for   *)
(* every document url the last run found listed that has records in the    *)
(* index.                                                                  *)
(***************************************************************************)
C4_SnapshotCoversIndexed ==
  (pc = "exit" /\ status = 0 /\ succeeded = runs) =>
    \A l \in Range(sermon_links) : HasRecords(l.url) => l.url \in Urls(snapshot)

(***************************************************************************)
(* C5: a run never fetches the page of a document that an earlier run      *)
(* crawled, saved in the snapshot and upserted.                            *)
(***************************************************************************)
C5_NoRefetchOfSettled ==
  pc \in {"sermons", "scraped", "stage", "upsert"} =>
    \A u \in Range(fetched) : u \notin settled

\* The sermon links a loaded category page yielded in this run.
LinksOfLoaded(cat_url) ==
  IF cat_url \in catLoaded
    THEN Range(SermonLinksOn(catPages[cat_url.slug],
                             CHOOSE c \in Range(category_links) : c.url = cat_url))
    ELSE {}

\* The categories whose loaded page links to the sermon url u.
LinkingCategories(u) ==
  {c \in catLoaded : \E l \in LinksOfLoaded(c) : l.url = u}

EntriesOf(u) == {i \in 1..Len(all_sermons) : all_sermons[i].url = u}

\* The title the crawl derives for a sermon page that loaded.
DerivedTitle(u) ==
  LET headings == SelectSeq(pages[u].headings, LAMBDA t : Len(t) > 2)
      link == CHOOSE l \in Range(sermon_links) : l.url = u
  IN IF headings /= <<>> THEN Head(headings) ELSE link.title

(***************************************************************************)
(* C6: within one crawl no sermon url is fetched twice, the returned       *)
(* mapping has at most one entry per url, and a valid new document linked  *)
(* from two categories has exactly one entry.                              *)
(***************************************************************************)
C6_AtMostOnce ==
  /\ \A i, j \in 1..Len(fetched) : fetched[i] = fetched[j] => i = j
  /\ \A u \in Urls(all_sermons) : Cardinality(EntriesOf(u)) <= 1

C6_DedupExactlyOnce ==
  /\ C6_AtMostOnce
  /\ CrawlReturned =>
       \A u \in Accepted :
         Cardinality(LinkingCategories(u)) >= 2 => Cardinality(EntriesOf(u)) = 1

(***************************************************************************)
(* C7: within one crawl no accepted document is overwritten: for every     *)
(* title, the accepted documents that derive it are all in the returned    *)
(* mapping, each under its own key.                                        *)
(***************************************************************************)
C7_NoOverwrite ==
  CrawlReturned =>
    \A u \in Accepted :
      LET sameTitle == {v \in Accepted : DerivedTitle(v) = DerivedTitle(u)}
      IN Cardinality({i \in 1..Len(all_sermons) : all_sermons[i].url \in sameTitle})
           = Cardinality(sameTitle)

(***************************************************************************)
(* C8: a sermon page whose cleaned text is shorter than 200 characters is  *)
(* not in the crawl output, no text that short is in the snapshot or in an *)
(* index record, and the crawl still visits every collected sermon link.   *)
(***************************************************************************)
C8_ShortNeverStored ==
  /\ \A u \in DOMAIN pages :
       pages[u].content.chars < 200 => u \notin Urls(all_sermons)
  /\ \A e \in Range(all_sermons) \cup Range(snapshot) : e.content.chars >= 200
  /\ \A id \in DOMAIN index : index[id].metadata.text.of.chars >= 200
  /\ (CrawlReturned /\ category_links /= <<>>) =>
       \A l \in Range(sermon_links) : l.url \in visited_sermon_urls

\* A short page was rejected and a sermon link after it was stored and indexed.
C8_Witness ==
  /\ pc = "exit" /\ status = 0
  /\ \E i, j \in 1..Len(sermon_links) :
       /\ i < j
       /\ sermon_links[i].url \in DOMAIN pages
       /\ pages[sermon_links[i].url].content.chars < 200
       /\ sermon_links[j].url \in Urls(snapshot)
       /\ HasRecords(sermon_links[j].url)

(***************************************************************************)
(* C9: when a category page or a sermon page raised, the crawl went on:    *)
(* every new sermon link of a category page that loaded was requested, and *)
(* every such sermon whose page loaded with a valid text is in the output. *)
(***************************************************************************)
C9_CrawlSurvivesFailure ==
  (CrawlReturned /\ SomePageRaised) =>
    /\ \A c \in catLoaded : \A l \in LinksOfLoaded(c) :
         l.url \in Urls(existing_sermons) \/ l.url \in Range(fetched)
    /\ \A u \in Accepted : u \in Urls(all_sermons)

NumBatches(n) == (n + BATCH_SIZE - 1) \div BATCH_SIZE

(***************************************************************************)
(* C10: when embed_and_upsert returns, every batch of the staged records   *)
(* has been sent to the index, also after a batch failed, and every record *)
(* of a batch whose upsert succeeded is in the index.                      *)
(***************************************************************************)
C10_ContinuesAfterBatchFailure ==
  (pc = "exit" /\ vectors /= <<>>) =>
    /\ Len(upsertLog) = NumBatches(Len(vectors))
    /\ \A b \in 1..Len(upsertLog) :
         upsertLog[b] = "ok" =>
           \A v \in Range(BatchAt(vectors, (b - 1) * BATCH_SIZE)) :
             v.id \in DOMAIN index

\* The last call of a writer has returned True, and so has the one before it.
TwoWritesReturned ==
  /\ pc = "exit" /\ status = 0
  /\ Len(writes) >= 2
  /\ writes[Len(writes)].prior = "True"

LastWrite == writes[Len(writes)]

PreviousWrite == writes[Len(writes) - 1]

(***************************************************************************)
(* C11: when embed_and_upsert has written the same unchanged mapping twice,*)
(* every record of the second write has an id the first write left in the  *)
(* index with the same metadata, and the index holds the same records and  *)
(* the same number of records after the second write as after the first.   *)
(***************************************************************************)
C11_RewriteIsNoOp ==
  ( /\ TwoWritesReturned
    /\ LastWrite.path = "stage" /\ PreviousWrite.path = "stage"
    /\ LastWrite.data = PreviousWrite.data ) =>
      /\ \A v \in Range(vectors) :
           /\ v.id \in DOMAIN LastWrite.before
           /\ \E w \in Range(vectors) :
                /\ w.id = v.id
                /\ w.metadata = LastWrite.before[v.id].metadata
      /\ index = LastWrite.before
      /\ Cardinality(DOMAIN index) = Cardinality(DOMAIN LastWrite.before)

\* Two documents, one of them filling more than one batch, written twice.
C11_Witness ==
  /\ TwoWritesReturned
  /\ LastWrite.path = "stage" /\ PreviousWrite.path = "stage"
  /\ LastWrite.data = PreviousWrite.data
  /\ Len(sermon_data) = 2
  /\ Len(vectors) > BATCH_SIZE
  /\ index /= PreviousWrite.before

\* The same documents: contents, urls and categories, whatever the title keys.
SameDocuments(d, e) ==
  /\ Len(d) = Len(e)
  /\ \A i \in 1..Len(d) :
       /\ d[i].content = e[i].content
       /\ d[i].url = e[i].url
       /\ d[i].category = e[i].category

(***************************************************************************)
(* C12: the id of every record a writer stages is the id derived from the  *)
(* document url and the chunk index alone, whichever of the two writers    *)
(* staged it and whatever the title key; and when the same documents, all  *)
(* long enough to be embedded, are written again through either writer,    *)
(* with or without an edited title key, the index has no more records than *)
(* before.                                                                 *)
(***************************************************************************)
C12_IdFromUrlAndChunkOnly ==
  /\ \A v \in Range(vectors) :
       v.id = RecordId(v.metadata.url, v.metadata.chunk_index)
  /\ ( /\ TwoWritesReturned
       /\ SameDocuments(LastWrite.data, PreviousWrite.data)
       /\ \A e \in Range(sermon_data) : e.content.chars >= MIN_EMBED_LEN ) =>
         DOMAIN index = DOMAIN LastWrite.before

(***************************************************************************)
(* C13: for a text of n words, every chunk_size >= 1 and overlap >= 0,     *)
(* also overlap >= chunk_size, chunk_text returns after at most n          *)
(* iterations, and what it returns is the list of the windows              *)
(* w[k*step .. k*step+chunk_size) for k = 0 .. ceil(n/step)-1 with         *)
(* step = max(1, chunk_size - overlap), each joined with single blanks:    *)
(* each window has between 1 and chunk_size words, every word is in some   *)
(* window, a second call on the same text returns the same list, and a     *)
(* text without words yields the empty list.                               *)
(***************************************************************************)
C13_ChunksAreTheWindows ==
  LET w == Split(ct.text)
      n == Len(w)
      step == IF ct.chunk_size - ct.overlap >= 1
                THEN ct.chunk_size - ct.overlap ELSE 1
      count == (n + step - 1) \div step
      lo(k) == k * step
      hi(k) == IF k * step + ct.chunk_size < n THEN k * step + ct.chunk_size ELSE n
      window(k) == SubSeq(w, lo(k) + 1, hi(k))
  IN /\ ct.pc = "loop" =>
          /\ Len(ct.chunks) <= n
          /\ ct.i = Len(ct.chunks) * step
     /\ ct.pc = "return" =>
          /\ Len(ct.chunks) = count
          /\ \A k \in 0..(count - 1) :
               /\ ct.chunks[k + 1] = Join(window(k))
               /\ Len(window(k)) \in 1..ct.chunk_size
          /\ \A j \in 1..n : \E k \in 0..(count - 1) : lo(k) < j /\ j <= hi(k)
          /\ n = 0 => ct.chunks = <<>>
          /\ ct.first /= <<"none">> => ct.chunks = ct.first[2]

\* Three words cut with an overlap not below the chunk size: three windows,
\* returned twice.
C13_Witness ==
  /\ ct.pc = "return"
  /\ ct.first /= <<"none">>
  /\ ct.overlap >= ct.chunk_size
  /\ Len(ct.words) = 3
  /\ Len(ct.chunks) = 3

(***************************************************************************)
(* Vocabulary of the query-time properties.                                *)
(***************************************************************************)
\* The matches the index returned to the operation in progress.
Matches ==
  IF call.reply.kind = "return" /\ Has(call.reply.value, "matches")
    THEN call.reply.value.matches
    ELSE <<>>

AboveThreshold(match) == Has(match, "score") /\ match.score > RELEVANCE_THRESHOLD

HasText(match) == Has(match, "metadata") /\ Has(match.metadata, "text")

UrlOf(match) ==
  IF Has(match, "metadata") /\ Has(match.metadata, "url")
    THEN match.metadata.url
    ELSE NoUrl

ChatAt(positions) == call.pc \in positions /\ call.op = "chat"

\* The sermon links of the response of chat.
Links ==
  IF Has(call.result.value.body, "answer")
    THEN call.result.value.body.answer.links
    ELSE <<>>

(***************************************************************************)
(* C14: in chat, every text of the grounding context is the text of a      *)
(* returned match whose score is above 0.25, and every url of the source   *)
(* list and of the links of the response is the url of such a match: a     *)
(* match at or below the threshold, or without a score, contributes        *)
(* neither.                                                                *)
(***************************************************************************)
C14_GateKeepsLowScoresOut ==
  ChatAt({"build", "generate", "done"}) =>
    /\ \A m \in Range(call.relevant_matches) : AboveThreshold(m)
    /\ \A t \in Range(call.context_chunks) :
         \E m \in Range(Matches) :
           AboveThreshold(m) /\ HasText(m) /\ m.metadata.text = t
    /\ \A t \in Range(call.context) :
         t \in Range(call.context_chunks) \cup {"\n\n---\n\n"}
    /\ \A src \in Range(call.sources) :
         \E m \in Range(Matches) : AboveThreshold(m) /\ UrlOf(m) = src.url
    /\ call.pc = "done" =>
         \A l \in Range(Links) :
           \E m \in Range(Matches) : AboveThreshold(m) /\ UrlOf(m) = l.url

\* The index returned a match above the threshold, one below it and one
\* without a score, each with a text, and the context has been built.
C14_Witness ==
  /\ ChatAt({"generate"})
  /\ call.context_chunks /= <<>>
  /\ \E m \in Range(Matches) : Has(m, "score") /\ ~AboveThreshold(m) /\ HasText(m)
  /\ \E m \in Range(Matches) : ~Has(m, "score") /\ HasText(m)

(***************************************************************************)
(* C15: retrieve returns no text of a match whose score is below the       *)
(* threshold, and returns the empty list when every returned match scores  *)
(* below the threshold.                                                    *)
(***************************************************************************)
C15_RetrieveIsGated ==
  (call.pc = "done" /\ call.op = "retrieve") =>
    /\ \A m \in Range(Matches) :
         (Has(m, "score") /\ m.score < RELEVANCE_THRESHOLD /\ HasText(m)) =>
           m.metadata.text \notin Range(call.result.value)
    /\ (\A m \in Range(Matches) :
          Has(m, "score") /\ m.score < RELEVANCE_THRESHOLD) =>
         call.result.value = <<>>

(***************************************************************************)
(* C16: in chat, when the embedding and the index query succeeded and the  *)
(* index returned no match or no match above the threshold, the response   *)
(* has status 200, carries an answer, and is not the generic failure       *)
(* response.                                                               *)
(***************************************************************************)
C16_NoRelevantIsNotAFailure ==
  ( /\ ChatAt({"done"})
    /\ call.embedding = "ok" /\ call.reply.kind = "return"
    /\ \A m \in Range(Matches) : ~AboveThreshold(m) ) =>
      /\ call.result.value.status = 200
      /\ Has(call.result.value.body, "answer")
      /\ call.result /= Failure

(***************************************************************************)
(* C17: in chat, once the context is built from the matches that passed    *)
(* the gate, the source list holds every non-empty url of these matches    *)
(* exactly once, in the order of first occurrence, and the context holds   *)
(* the text of every such match that has one, in rank order, a url with    *)
(* several chunks contributing all of them.                                *)
(***************************************************************************)
C17_SourcesOncePerUrlContextComplete ==
  ChatAt({"generate", "done"}) =>
    LET R == call.relevant_matches
        S == call.sources
        first(u) == CHOOSE k \in 1..Len(R) :
                      UrlOf(R[k]) = u /\ \A j \in 1..(k - 1) : UrlOf(R[j]) /= u
        withText == SelectSeq(R, HasText)
    IN /\ \A a, b \in 1..Len(S) : S[a].url = S[b].url => a = b
       /\ {S[a].url : a \in 1..Len(S)} = {UrlOf(R[k]) : k \in 1..Len(R)} \ {NoUrl}
       /\ \A a, b \in 1..Len(S) : a < b => first(S[a].url) < first(S[b].url)
       /\ Len(call.context_chunks) = Len(withText)
       /\ \A k \in 1..Len(withText) :
            /\ call.context_chunks[k] = withText[k].metadata.text
            /\ call.context[2 * k - 1] = withText[k].metadata.text
       /\ Len(call.context) = Max(0, 2 * Len(withText) - 1)

\* Two chunks of /faith.html and one of /grace.html passed the gate.
C17_Witness ==
  /\ ChatAt({"generate"})
  /\ Len(call.relevant_matches) = 3
  /\ Len(call.context_chunks) = 3
  /\ Len(call.sources) = 2
  /\ UrlOf(call.relevant_matches[1]) = UrlOf(call.relevant_matches[2])

FixedMessages ==
  {NoClientMessage, SmallTalkMessage, NoSermonsMessage, GenerationFailedMessage}

(***************************************************************************)
(* C18: every query-time operation returns to its caller, whatever the     *)
(* request and whichever collaborator fails: retrieve returns the empty    *)
(* list when the embedding or the index raises, generate_answer returns    *)
(* one of its fixed messages when the client is missing or the generation  *)
(* fails, and chat returns a JSON response with a status, the generic      *)
(* failure response when the embedding or the index raises.                *)
(***************************************************************************)
C18_NoExceptionCrossesABoundary ==
  call.pc = "done" =>
    /\ call.result.kind = "return"
    /\ (call.op = "retrieve"
          /\ (call.embedding = "raise" \/ call.reply.kind = "raise")) =>
         call.result.value = <<>>
    /\ (call.op = "generate_answer"
          /\ (~call.client \/ call.llm.kind /= "content")) =>
         call.result.value \in FixedMessages
    /\ call.op = "chat" =>
         /\ call.result.value.status \in {200, 400, 500}
         /\ (Has(call.result.value.body, "answer")
               \/ Has(call.result.value.body, "error"))
         /\ (call.embedding = "raise"
               \/ (call.embedding = "ok" /\ call.reply.kind = "raise")) =>
              call.result = Failure

\* The index raised inside retrieve and retrieve returned the empty list.
C18_Witness ==
  /\ call.pc = "done" /\ call.op = "retrieve"
  /\ call.embedding = "ok" /\ call.reply.kind = "raise"
  /\ call.result = Return(<<>>)

(***************************************************************************)
(* C19: in chat, when a match passed the gate and the generative model is  *)
(* reachable and returns a non-empty answer without a no-sermon indicator, *)
(* the response has status 200 and its links are the first up to three     *)
(* distinct urls of the matches that passed the gate, none of them the url *)
(* of a match that only failed the gate.                                   *)
(***************************************************************************)
C19_AnswerCitesSurvivors ==
  ( /\ ChatAt({"done"})
    /\ call.relevant_matches /= <<>>
    /\ call.client /\ call.llm.kind = "content"
    /\ Strip(call.llm.content) /= <<>>
    /\ \A phrase \in Range(Lower(call.llm.content)) :
         phrase \notin no_sermon_indicators ) =>
      /\ call.result.value.status = 200
      /\ Len(Links) = Min(3, Len(call.sources))
      /\ \A k \in 1..Len(Links) : Links[k].url = call.sources[k].url
      /\ \A l \in Range(Links) :
           \E m \in Range(call.relevant_matches) : UrlOf(m) = l.url

\* Both runs have ended, and each had loaded the snapshot both started on.
BothRanOnTheStart ==
  /\ procs /= <<>>
  /\ \A p \in Procs :
       procs[p].pc = "exit" /\ procs[p].existing_sermons = solo.start

CollectedUrls ==
  UNION {{l.url : l \in LinksOfLoaded(c)} : c \in catLoaded}

\* How often the url u was given to driver.get in this run.
TimesFetched(u) == Cardinality({i \in 1..Len(gets) : gets[i] = u})

(***************************************************************************)
(* C21: in a crawl the first page requested is the root listing and it is  *)
(* requested once; every other page requested is a category link of the    *)
(* root listing or a document link collected from a category page that     *)
(* loaded, so no link that only a document page shows is requested; no     *)
(* category page is requested twice; and the requests number at most one   *)
(* plus the distinct category links plus the distinct document links.      *)
(***************************************************************************)
C21_CrawlFetchesOnlyListedPages ==
  pc \in {"cats", "sermons", "scraped"} =>
    /\ gets /= <<>> /\ gets[1] = CATEGORIES_URL
    /\ TimesFetched(CATEGORIES_URL) = 1
    /\ \A i \in 2..Len(gets) :
         \/ gets[i] \in category_url_set
         \/ gets[i] \in CollectedUrls
    /\ \A u \in category_url_set : TimesFetched(u) <= 1
    /\ category_url_set \cap CollectedUrls = {}
    /\ Len(gets) <= 1 + Cardinality(category_url_set)
                      + Cardinality(CollectedUrls)

\* A crawl has ended that requested the root, both categories and two
\* documents, one of them linked from both categories.
C21_Witness ==
  /\ pc = "scraped"
  /\ Len(gets) = 5
  /\ Cardinality(category_url_set) = 2
  /\ \E u \in CollectedUrls :
       /\ Cardinality(LinkingCategories(u)) = 2
       /\ TimesFetched(u) = 1

\* The label of a category link: its title, or "General" when it has none.
LabelOf(cat) == IF cat.title /= "" THEN cat.title ELSE "General"

\* The label of the first category, in the order of the root listing, whose
\* page loaded in this run and links to the document url u.
FirstLabel(u) ==
  LabelOf(category_links[
    CHOOSE i \in 1..Len(category_links) :
      /\ category_links[i].url \in LinkingCategories(u)
      /\ \A j \in 1..(i - 1) :
           category_links[j].url \notin LinkingCategories(u)])

(***************************************************************************)
(* C22: every document the crawl stores carries the label of the first     *)
(* category, in root-listing order, whose page yielded its link, whatever  *)
(* later categories link to it; the records staged for the index carry the *)
(* same label, and so do the records of the index once the run succeeded.  *)
(***************************************************************************)
C22_FirstCategoryLabelWins ==
  pc \in {"sermons", "scraped", "stage", "upsert", "exit"} =>
    /\ \A i \in 1..Len(all_sermons) :
         all_sermons[i].category = FirstLabel(all_sermons[i].url)
    /\ \A i \in 1..Len(vectors) :
         vectors[i].metadata.category = FirstLabel(vectors[i].metadata.url)
    /\ (pc = "exit" /\ status = 0) =>
         \A i \in 1..Len(all_sermons) : \A id \in DOMAIN index :
           index[id].metadata.url = all_sermons[i].url =>
             index[id].metadata.category = FirstLabel(all_sermons[i].url)

\* A run succeeded that indexed a document linked from two categories with
\* different labels.
C22_Witness ==
  /\ pc = "exit" /\ status = 0
  /\ \E i \in 1..Len(all_sermons) : \E id \in DOMAIN index :
       /\ index[id].metadata.url = all_sermons[i].url
       /\ Cardinality(LinkingCategories(all_sermons[i].url)) = 2
       /\ \E c \in Range(category_links) :
            /\ c.url \in LinkingCategories(all_sermons[i].url)
            /\ LabelOf(c) /= index[id].metadata.category

(***************************************************************************)
(* Vocabulary of the property of clean_content.                            *)
(***************************************************************************)
NonBlank(str) == SelectSeq(str, LAMBDA a : a \notin Blank)

\* a can be had from b by deleting elements of b.
RECURSIVE IsSubseq(_, _)
IsSubseq(a, b) ==
  IF a = <<>> THEN TRUE
  ELSE IF b = <<>> THEN FALSE
  ELSE IF Head(a) = Head(b) THEN IsSubseq(Tail(a), Tail(b))
  ELSE IsSubseq(a, Tail(b))

\* Position i of str lies in a bracketed span: from a "[" to the first "]"
\* after it.
Bracketed(str, i) ==
  \E j \in 1..i : \E k \in i..Len(str) :
    /\ j < k
    /\ str[j] = "[" /\ str[k] = "]"
    /\ \A m \in (j + 1)..(k - 1) : str[m] /= "]"

\* The positions of str that hold text outside every bracketed span.
Free(str) == {i \in 1..Len(str) : str[i] \notin Blank /\ ~Bracketed(str, i)}

Least(S) == CHOOSE i \in S : \A j \in S : i <= j

\* The positions of the leading label of str: a label that is the first
\* text outside the bracketed spans, with the colon that follows it.
LabelAt(str) ==
  IF Free(str) /= {} /\ str[Least(Free(str))] \in LabelAtoms
    THEN LET p == Least(Free(str))
             after == {i \in Free(str) : i > p}
         IN {p} \cup (IF after /= {} /\ str[Least(after)] = ":"
                        THEN {Least(after)} ELSE {})
    ELSE {}

\* str with its bracketed spans and its leading label blanked out.
Blanked(str) ==
  [i \in 1..Len(str) |->
     IF Bracketed(str, i) \/ i \in LabelAt(str) \/ str[i] \in Blank
       THEN " " ELSE str[i]]

\* A bracketed span of str runs over a line break.
BracketOverLines(str) ==
  \E i \in 1..Len(str) : str[i] = "\n" /\ Bracketed(str, i)

CleanArg == IF cl.arg = None THEN <<>> ELSE cl.arg.value

(***************************************************************************)
(* C23: clean_content returns, without raising, the words of its input     *)
(* outside the bracketed spans and after one leading summary or summarized *)
(* label, in their order, separated by single blanks: nothing else is      *)
(* deleted, a later summary stays, nothing is added, the result has no     *)
(* leading, trailing or repeated whitespace, and None and the empty string *)
(* give the empty string.  A bracketed span that runs over a line break    *)
(* may stay in the result.                                                 *)
(***************************************************************************)
C23_CleanDeletesOnlyBracketsAndLabel ==
  (cl.pc = "done") =>
    /\ cl.result.kind = "return"
    /\ cl.result.value = clean_content(cl.arg)
    /\ Falsy(cl.arg) => cl.result.value = <<>>
    /\ IsSubseq(NonBlank(Blanked(CleanArg)), NonBlank(cl.result.value))
    /\ IsSubseq(NonBlank(cl.result.value), NonBlank(CleanArg))
    /\ ~BracketOverLines(CleanArg) =>
         Split(cl.result.value) = Split(Blanked(CleanArg))
    /\ cl.result.value = Join(Split(cl.result.value))
    /\ \A i \in 1..Len(cl.result.value) : cl.result.value[i] /= "\n"

\* A text with a bracketed span, a leading label and a later summary was
\* cleaned, and the later summary is in the result.
C23_Witness ==
  /\ cl.pc = "done"
  /\ cl.arg = Str(<<"Summary", "[", "]", "Summary">>)
  /\ cl.result = Return(<<"Summary">>)

\* Every call of the writer so far was a call of embed_and_upsert of
\* scrape_and_embed.py on a mapping as the crawl returns it, no url under
\* two keys, and returned True.
AllWritesReturned ==
  /\ pc = "exit" /\ status = 0
  /\ writes /= <<>>
  /\ \A i \in 1..Len(writes) :
       /\ writes[i].path = "stage"
       /\ i > 1 => writes[i].prior = "True"
       /\ \A j, k \in 1..Len(writes[i].data) :
            writes[i].data[j].url = writes[i].data[k].url => j = k

(***************************************************************************)
(* C24: after ingestion runs that all succeeded, the records of the index  *)
(* that carry the same document url agree on total_chunks and each has     *)
(* chunk_index < total_chunks, so that no record of an older, longer chunk *)
(* set of a document is left when its text came to have fewer chunks.      *)
(***************************************************************************)
C24_NoStaleChunks ==
  AllWritesReturned =>
    \A id \in DOMAIN index :
      /\ index[id].metadata.chunk_index < index[id].metadata.total_chunks
      /\ \A other \in DOMAIN index :
           index[other].metadata.url = index[id].metadata.url =>
             index[other].metadata.total_chunks
               = index[id].metadata.total_chunks

\* The request carries no JSON body: the body is not JSON, or the JSON
\* value is null or the empty object.
NoJsonBody(request) ==
  IF request.kind = "json" THEN request.data \in {None, EmptyMap} ELSE TRUE

\* The message of the request, when it has a JSON object with a message
\* that is a string or with no message, for which chat takes "".
MessageOf(request) ==
  IF NoJsonBody(request) THEN None
  ELSE IF ~Has(request.data, "message") THEN Str(<<>>)
  ELSE IF request.data.message.type = "str" THEN request.data.message
  ELSE None

EmptyMessage(request) ==
  IF MessageOf(request) = None THEN FALSE
  ELSE Strip(MessageOf(request).value) = <<>>

GreetingOrShort(request) ==
  IF MessageOf(request) = None \/ EmptyMessage(request) THEN FALSE
  ELSE \/ Strip(Lower(Strip(MessageOf(request).value))) \in greetings
       \/ Len(Split(Strip(MessageOf(request).value))) <= 2

\* Neither the embedding function nor the index nor the generative model
\* was called by the operation in progress.
NoCollaboratorCalled ==
  call.embedding = "" /\ call.reply = None /\ call.llm = None

(***************************************************************************)
(* C26: chat answers a request without a JSON body and a request with an   *)
(* empty message with status 400, and a message that is a listed greeting  *)
(* or has at most two words with status 200 and the fixed greeting; in     *)
(* these cases it calls neither the embedding function nor the index nor   *)
(* the generative model.                                                   *)
(***************************************************************************)
C26_EarlyExitsCallNothing ==
  ChatAt({"done"}) =>
    /\ (NoJsonBody(call.request) \/ EmptyMessage(call.request)) =>
         /\ call.result.value.status = 400
         /\ NoCollaboratorCalled
    /\ GreetingOrShort(call.request) =>
         /\ call.result = Respond(200, [answer |-> Answer(GreetingAnswer, <<>>)])
         /\ NoCollaboratorCalled

\* The crawl of the run in progress has returned, with no document.
CrawlReturnedNothing == pc = "scraped" /\ all_sermons = <<>>

(***************************************************************************)
(* C25: no step of a run that is still crawling writes the snapshot or the *)
(* index, and a run whose crawl returned no document takes one more step:  *)
(* it ends with status 1 and leaves the snapshot and the index as they     *)
(* are.                                                                    *)
(***************************************************************************)
C25_EmptyCrawlWritesNothing ==
  [][ /\ (pc \in {"root", "cats", "sermons"} \/ CrawlReturnedNothing) =>
           /\ snapshot' = snapshot
           /\ index' = index
      /\ CrawlReturnedNothing => (pc' = "exit" /\ status' = 1) ]_vars

\* A run has ended with status 1 because every document the categories list
\* is in the snapshot already; an earlier run had filled snapshot and index.
C25_Witness ==
  /\ pc = "exit" /\ status = 1
  /\ all_sermons = <<>>
  /\ sermon_links /= <<>>
  /\ \A l \in Range(sermon_links) : l.url \in Urls(existing_sermons)
  /\ snapshot = existing_sermons /\ snapshot /= <<>>
  /\ index /= EmptyMap
  /\ upsertLog = <<>>

====
